---- MODULE Spec2Model ----
(***************************************************************************)
(* Cache-aside query layer: MySQL pool + Redis cache.                      *)
(*   src/dbConnector.js        executeWithRetry, QuaryCache, getCacheQuery, *)
(*                             getCacheQueryPagination, bulkInsert,         *)
(*                             getCacheQueryWithTimeout, withTransaction    *)
(*   src/redis.Connector.js    (lines 117-330) waitForConnection, safeExec, *)
(*                             getArrayItem, addArrayItem, delKeyItem,      *)
(*                             delPrefixKeyItem                             *)
(*   src/core/autoKey.js       (lines 223-337) determineInvalidationPatterns*)
(*                                                                         *)
(* Every await of the code is a yield point of the model: an action is the  *)
(* run of one call from one await to the next.  The pool, the MySQL server  *)
(* and the Redis server are the environment: each request to them succeeds  *)
(* or fails nondeterministically.                                           *)
(***************************************************************************)
EXTENDS Integers, Sequences, FiniteSets, TLC

VARIABLES
    calls,                    \* call id -> the frame of the public call running in that slot
    cache,                    \* the Redis keyspace: namespaced key -> stored string
    dbVersion,                \* committed content of the backing store
    isRedisReady,             \* redis.Connector.js:148
    redisUp,                  \* whether the Redis server answers commands
    isShuttingDown,           \* dbConnector.js:97
    REDIS_ENABLED,            \* dbConnector.js:9
    REDIS_VHOST,              \* process.env.REDIS_VHOST
    autoKeyEnabled,           \* core/autoKey.js:10 (with CORE_AUTO_FEATURES)
    autoInvalidationEnabled,  \* core/autoKey.js:230 (with CORE_AUTO_INVALIDATION)
    invalidationRules,        \* core/autoKey.js:231
    lastEventReady,           \* history: the latest ready/error/end event was ready
    callArgs,                 \* the latest direct call of a pure function: its arguments
    callResult                \* and what it returned

vars == <<calls, cache, dbVersion, isRedisReady, redisUp, isShuttingDown,
          REDIS_ENABLED, REDIS_VHOST, autoKeyEnabled, autoInvalidationEnabled,
          invalidationRules, lastEventReady, callArgs, callResult>>

pureVars == <<callArgs, callResult>>

cfgVars == <<REDIS_ENABLED, REDIS_VHOST, autoKeyEnabled, autoInvalidationEnabled,
             invalidationRules>>

----------------------------------------------------------------------------
(* Bounds of the model *)

NumCalls == 1       \* calls in flight at a time
MaxTxOps == 2       \* tx.query / tx.getCacheQuery calls of one transaction callback
MaxWrites == 2      \* write statements the backing store accepts
MaxRecords == 2     \* records of one bulkInsert
MaxKeys == 201      \* numbered keys of the cache
MaxAttempt == 12    \* reconnect attempts the retry strategy is asked about
RandomSteps == 20   \* Math.random() draws one of 0/RandomSteps .. (RandomSteps-1)/RandomSteps

(* Program constants *)

Retries == 3
BaseDelay == 1000
DefaultExpiry == 40000
DEL_BATCH_SIZE == 100
ScanCount == 100
RECONNECT_BASE_DELAY == 500
RECONNECT_MAX_DELAY == 30000

Calls == 1..NumCalls

----------------------------------------------------------------------------
(* JavaScript values.  Every value is a tagged record, so that values of    *)
(* different JavaScript types can be compared.                              *)

JNull == [t |-> "null"]
JUndef == [t |-> "undefined"]
JArr(rows) == [t |-> "array", v |-> rows]
JStr(s) == [t |-> "string", v |-> s]
JObj(totalCount, pageCount, detail) ==
    [t |-> "object", totalCount |-> totalCount, pageCount |-> pageCount, detail |-> detail]

JNum(n) == [t |-> "number", v |-> n]
JNaN == [t |-> "NaN"]

\* the numeric strings of the model
StringToNumber(s) ==
    CASE s = <<>> -> JNum(0)
      [] s = <<"0">> -> JNum(0)
      [] s = <<"1">> -> JNum(1)
      [] OTHER -> JNaN

\* the conversion the * operator applies to an operand
ToNumber(x) ==
    CASE x.t = "number" -> x
      [] x.t = "null" -> JNum(0)
      [] x.t = "string" -> StringToNumber(x.v)
      [] OTHER -> JNaN

\* x * n for a number n
Times(x, n) == IF ToNumber(x).t = "NaN" THEN JNaN ELSE JNum(ToNumber(x).v * n)

\* a number inside a template string
NumberToString(x) == IF x.t = "NaN" THEN "NaN" ELSE ToString(x.v)

\* `if (x)` on the values a cache name or reset name can take
Truthy(x) == x.t \notin {"null", "undefined"} /\ (x.t = "string" => x.v # <<>>)

\* `x.length > 0`: a TypeError on null/undefined, false when there is no length
HasLength(x) == x.t \notin {"null", "undefined"}
LengthPositive(x) == x.t \in {"array", "string"} /\ Len(x.v) > 0

\* JSON.stringify, and the strings a Redis GET can answer
JSONstringify(x) == [t |-> "json", v |-> x]
NullReply == [t |-> "nil"]
Garbage == [t |-> "invalid-json"]

\* JSON.parse: null for a nil reply, a SyntaxError for an unparsable string
JSONparseThrows(reply) == reply.t = "invalid-json"
JSONparse(reply) == IF reply.t = "nil" THEN JNull ELSE reply.v

----------------------------------------------------------------------------
(* Errors *)

Err(msg, code) == [msg |-> msg, code |-> code]

TransientCodes ==
    {"ECONNREFUSED", "ETIMEDOUT", "ENOTFOUND", "PROTOCOL_CONNECTION_LOST", "ER_CON_COUNT_ERROR"}

IsRetryableBroken(error) == error.code \in TransientCodes \cup {"ER_LOCK_DEADLOCK"}

\* dbConnector.js:121-125
IsRetryable(error) == error.code \in TransientCodes

\* what the pool and the MySQL server can fail with
DbErrors ==
    { Err("connect ECONNREFUSED", "ECONNREFUSED"),
      Err("Connection lost", "PROTOCOL_CONNECTION_LOST"),
      Err("You have an error in your SQL syntax", "ER_PARSE_ERROR") }

\* the errors the pool and the MySQL server are made to fail with where the
\* retry rule is examined: every code of the rule, other codes, and no code
AnyDbErrors ==
    { Err("failed", code) :
        code \in TransientCodes \cup {"ER_PARSE_ERROR", "ER_LOCK_DEADLOCK", "ECONNRESET", "none"} }

ShutdownError == Err("Server is shutting down, cannot process new queries", "none")
ShutdownTxError == Err("Server is shutting down, cannot process new transactions", "none")
TypeError == Err("Cannot read properties of null (reading 'length')", "none")
CallbackError == Err("callback failed", "none")
RollbackError == Err("Rollback error", "PROTOCOL_CONNECTION_LOST")
CommitError == Err("Commit error", "PROTOCOL_CONNECTION_LOST")

----------------------------------------------------------------------------
(* Statements, keys and patterns are sequences of tokens *)

SqlSelectUsers == <<"SELECT", "*", "FROM", "users">>
SqlSelectById == <<"SELECT", "*", "FROM", "users", "WHERE", "id", "=", "?">>
SqlInsertUsers == <<"INSERT", "INTO", "users">>
SqlUpdateOrders == <<"UPDATE", "orders", "SET">>
SqlCreate == <<"CREATE", "TABLE", "t">>

KeyUsersAll == <<"users", ":", "all">>
KeyUsersList == <<"users", "_", "list">>

PatUsersList == <<"users", "_", "list">>
PatOrders == <<"orders", ":">>

Upper(tok) ==
    CASE tok \in {"insert", "INSERT", "Insert"} -> "INSERT"
      [] tok \in {"update", "UPDATE", "Update"} -> "UPDATE"
      [] tok \in {"delete", "DELETE", "Delete"} -> "DELETE"
      [] tok \in {"replace", "REPLACE", "Replace"} -> "REPLACE"
      [] tok \in {"into", "INTO", "Into"} -> "INTO"
      [] tok \in {"from", "FROM", "From"} -> "FROM"
      [] OTHER -> tok

IsWord(tok) ==
    tok \notin {"*", ":", "_", "(", ")", "?", "=", ",", ";", "SET", "TABLE", "SELECT",
                " ", ">", "<", ">=", "<=", "!=", "<>"}

\* the first position at or after `from` where the keyword sequence kw is
\* followed by a word; 0 when there is none
RECURSIVE FindAfter(_, _, _)
FindAfter(sql, kw, from) ==
    IF from + Len(kw) > Len(sql) THEN 0
    ELSE IF /\ \A j \in 1..Len(kw) : Upper(sql[from + j - 1]) = kw[j]
            /\ IsWord(sql[from + Len(kw)])
         THEN from + Len(kw)
         ELSE FindAfter(sql, kw, from + 1)

NoTable == "null"

\* core/autoKey.js:256-274 (the invalidation module's extractTableName)
extractTableNameInv(sql) ==
    LET ins == FindAfter(sql, <<"INSERT", "INTO">>, 1)
        upd == FindAfter(sql, <<"UPDATE">>, 1)
        del == FindAfter(sql, <<"DELETE", "FROM">>, 1)
        rep == FindAfter(sql, <<"REPLACE", "INTO">>, 1)
    IN  IF ins > 0 THEN sql[ins]
        ELSE IF upd > 0 THEN sql[upd]
        ELSE IF del > 0 THEN sql[del]
        ELSE IF rep > 0 THEN sql[rep]
        ELSE NoTable

----------------------------------------------------------------------------
(* Key generation, core/autoKey.js:1-222 *)

\* the keywords of the key module's regular expressions, all matched with /i
Keyword(tok) ==
    CASE tok \in {"where", "WHERE"} -> "WHERE"
      [] tok \in {"order", "ORDER"} -> "ORDER"
      [] tok \in {"group", "GROUP"} -> "GROUP"
      [] tok \in {"by", "BY"} -> "BY"
      [] tok \in {"limit", "LIMIT"} -> "LIMIT"
      [] tok \in {"having", "HAVING"} -> "HAVING"
      [] tok \in {"and", "AND"} -> "AND"
      [] tok \in {"or", "OR"} -> "OR"
      [] tok \in {"not", "NOT"} -> "NOT"
      [] tok \in {"in", "IN"} -> "IN"
      [] tok \in {"like", "LIKE"} -> "LIKE"
      [] OTHER -> tok

\* String.prototype.toLowerCase on the identifiers of the model
Lower(tok) ==
    CASE tok = "ID" -> "id"
      [] tok = "Status" -> "status"
      [] OTHER -> tok

\* core/autoKey.js:36-40, 125-129, 166-170: the first 8 hex characters of the
\* MD5 digest, taken as collision-free: one token per input
md5(x) == "md5(" \o ToString(x) \o ")"

SerializeError == [msg |-> "Do not know how to serialize a BigInt", code |-> "none"]

\* JSON.stringify(parameters) throws on a BigInt
stringifyThrows(list) == \E j \in 1..Len(list) : list[j] = "10n"

\* JSON.stringify(parameters): undefined becomes null inside an array
stringify(list) == [j \in 1..Len(list) |-> IF list[j] = "undefined" THEN "null" ELSE list[j]]

NoParams(parameters) == parameters.t # "array" \/ Len(parameters.v) = 0

createParameterHashConstant(parameters) == "all"

\* core/autoKey.js:32-42; called only with parameters it can serialise
createParameterHash(parameters) ==
    IF NoParams(parameters) THEN "all" ELSE md5(stringify(parameters.v))

\* core/autoKey.js:49-67
extractTableName(sql) ==
    LET sel == FindAfter(sql, <<"FROM">>, 1)
        ins == FindAfter(sql, <<"INSERT", "INTO">>, 1)
        upd == FindAfter(sql, <<"UPDATE">>, 1)
        del == FindAfter(sql, <<"DELETE", "FROM">>, 1)
    IN  IF sel > 0 THEN sql[sel]
        ELSE IF ins > 0 THEN sql[ins]
        ELSE IF upd > 0 THEN sql[upd]
        ELSE IF del > 0 THEN sql[del]
        ELSE NoTable

\* the first position at or after `from` whose token satisfies Test; Len + 1
\* when there is none
First(seq, from, Test(_, _)) ==
    LET found == {j \in from..Len(seq) : Test(seq, j)}
    IN  IF found = {} THEN Len(seq) + 1 ELSE CHOOSE j \in found : \A h \in found : j <= h

IsWhere(sql, j) == Keyword(sql[j]) = "WHERE"

\* ORDER BY, LIMIT, GROUP BY, HAVING
IsTerminator(sql, j) ==
    \/ Keyword(sql[j]) \in {"LIMIT", "HAVING"}
    \/ Keyword(sql[j]) \in {"ORDER", "GROUP"} /\ j < Len(sql) /\ Keyword(sql[j + 1]) = "BY"

IsAndOr(seq, j) == Keyword(seq[j]) \in {"AND", "OR"}

\* whereClause.split(/\s+(AND|OR)\s+/i) without the AND and OR parts
RECURSIVE SplitAndOr(_)
SplitAndOr(clause) ==
    LET j == First(clause, 1, IsAndOr)
    IN  IF j > Len(clause) THEN <<clause>>
        ELSE <<SubSeq(clause, 1, j - 1)>> \o SplitAndOr(SubSeq(clause, j + 1, Len(clause)))

\* core/autoKey.js:74-88: the clause runs from the first WHERE, lazily and
\* over at least one character, to the first terminator or the end
extractWhereConditions(sql) ==
    LET w == First(sql, 1, IsWhere)
    IN  IF w >= Len(sql) THEN <<>>
        ELSE SplitAndOr(SubSeq(sql, w + 1, First(sql, w + 2, IsTerminator) - 1))

\* =, >, <, >=, <=, !=, <>, IN, LIKE, NOT IN, NOT LIKE at position j
IsOperatorAt(cond, j) ==
    \/ cond[j] \in {"=", ">", "<", ">=", "<=", "!=", "<>"}
    \/ Keyword(cond[j]) \in {"IN", "LIKE"}
    \/ Keyword(cond[j]) = "NOT" /\ j < Len(cond) /\ Keyword(cond[j + 1]) \in {"IN", "LIKE"}

IsColumnAt(cond, j) == IsWord(cond[j]) /\ j < Len(cond) /\ IsOperatorAt(cond, j + 1)

\* the identifiers of the model in the order of Array.prototype.sort
ColumnOrder == <<"company_id", "id", "name", "status">>

RECURSIVE Repeat(_, _)
Repeat(x, n) == IF n = 0 THEN <<>> ELSE <<x>> \o Repeat(x, n - 1)

RECURSIVE SortFrom(_, _)
SortFrom(columns, j) ==
    IF j > Len(ColumnOrder) THEN <<>>
    ELSE Repeat(ColumnOrder[j], Cardinality({h \in 1..Len(columns) : columns[h] = ColumnOrder[j]}))
         \o SortFrom(columns, j + 1)

\* columns.sort()
Sort(columns) == SortFrom(columns, 1)

RECURSIVE ColumnsOf(_)
ColumnsOf(conditions) ==
    IF Len(conditions) = 0 THEN <<>>
    ELSE LET cond == conditions[1]
             j == First(cond, 1, IsColumnAt)
         IN  (IF j > Len(cond) THEN <<>> ELSE <<Lower(cond[j])>>) \o ColumnsOf(Tail(conditions))

\* core/autoKey.js:95-113
extractColumnNames(conditions) == Sort(ColumnsOf(conditions))

\* columns.join(':') followed by ':'
RECURSIVE JoinColumns(_)
JoinColumns(columns) ==
    IF Len(columns) = 0 THEN <<>> ELSE <<columns[1], ":">> \o JoinColumns(Tail(columns))

KeyReturn(key) == [kind |-> "return", v |-> key]
KeyThrow == [kind |-> "throw", v |-> SerializeError]

\* createParameterHash(parameters) as the last part of a key
withParamHash(prefix, parameters) ==
    IF ~NoParams(parameters) /\ stringifyThrows(parameters.v) THEN KeyThrow
    ELSE KeyReturn(prefix \o <<createParameterHash(parameters)>>)

\* core/autoKey.js:120-154
generateDetailedKey(sql, parameters) ==
    LET tableName == extractTableName(sql)
        conditions == extractWhereConditions(sql)
        columns == extractColumnNames(conditions)
    IN  IF tableName = NoTable THEN KeyReturn(<<"query", ":", md5(sql)>>)
        ELSE IF Len(conditions) = 0 THEN KeyReturn(<<tableName, ":", "all">>)
        ELSE IF Len(columns) = 0 THEN withParamHash(<<tableName, ":">>, parameters)
        ELSE withParamHash(<<tableName, ":">> \o JoinColumns(columns), parameters)

generateSimpleKeyWithoutTable(sql, parameters) == withParamHash(<<"query", ":">>, parameters)

\* core/autoKey.js:162-176
generateSimpleKey(sql, parameters) ==
    LET tableName == extractTableName(sql)
    IN  IF tableName = NoTable THEN KeyReturn(<<"query", ":", md5(sql)>>)
        ELSE withParamHash(<<tableName, ":">>, parameters)

generateCacheKeyIgnoresStrategy(sql, parameters, options) ==
    IF NoParams(parameters) \/ Len(parameters.v) <= 3
    THEN generateDetailedKey(sql, parameters)
    ELSE generateSimpleKey(sql, parameters)

\* core/autoKey.js:190-207; options.strategy is "" when the option is absent
generateCacheKey(sql, parameters, options) ==
    LET strategy == IF options.strategy = "" THEN "auto" ELSE options.strategy
    IN  IF strategy = "simple" THEN generateSimpleKey(sql, parameters)
        ELSE IF strategy = "detailed" THEN generateDetailedKey(sql, parameters)
        ELSE IF parameters.t # "array" \/ Len(parameters.v) <= 3
             THEN generateDetailedKey(sql, parameters)
             ELSE generateSimpleKey(sql, parameters)

----------------------------------------------------------------------------
(* Invalidation planning, core/autoKey.js:223-337 *)

\* sql.trim(): a statement may start with white space, the token " "
RECURSIVE Trim(_)
Trim(sql) == IF Len(sql) > 0 /\ sql[1] = " " THEN Trim(Tail(sql)) ELSE sql

isWriteOperationAnywhere(sql) ==
    \E j \in 1..Len(sql) : Upper(sql[j]) \in {"INSERT", "UPDATE", "DELETE", "REPLACE"}

\* core/autoKey.js:281-283
isWriteOperation(sql) ==
    Len(Trim(sql)) > 0 /\ Upper(Trim(sql)[1]) \in {"INSERT", "UPDATE", "DELETE", "REPLACE"}

\* properties every plain object inherits from Object.prototype
ObjectPrototypeProps == {"constructor", "toString"}

\* core/autoKey.js:294: invalidationRules[tableName] on a plain object: its
\* own property, else the inherited one (a function), else undefined
GetProperty(obj, name) ==
    IF name \in DOMAIN obj THEN obj[name]
    ELSE IF name \in ObjectPrototypeProps THEN [t |-> "function", v |-> <<"function", name>>]
    ELSE JUndef

\* core/autoKey.js:290-301
getInvalidationPatterns(tableName) ==
    IF tableName = NoTable THEN <<>>
    ELSE LET rules == GetProperty(invalidationRules, tableName)
         IN  IF Truthy(rules)
             THEN IF rules.t = "array" THEN rules.v ELSE <<rules.v>>
             ELSE << <<tableName, "_", "*">>, <<tableName, ":", "*">> >>

determineInvalidationPatternsAutoFirst(sql, manualPattern) ==
    IF ~autoInvalidationEnabled THEN <<>>
    ELSE IF Truthy(manualPattern)
    THEN IF manualPattern.t = "array" THEN manualPattern.v ELSE <<manualPattern.v>>
    ELSE IF ~isWriteOperation(sql) THEN <<>>
    ELSE getInvalidationPatterns(extractTableNameInv(sql))

\* core/autoKey.js:309-328
determineInvalidationPatterns(sql, manualPattern) ==
    IF Truthy(manualPattern)
    THEN IF manualPattern.t = "array" THEN manualPattern.v ELSE <<manualPattern.v>>
    ELSE IF ~autoInvalidationEnabled THEN <<>>
    ELSE IF ~isWriteOperation(sql) THEN <<>>
    ELSE getInvalidationPatterns(extractTableNameInv(sql))

\* the strategy of the first version of the connector (redis.Connector.js:10-33)
retryStrategyGivesUp(attempt, rnd) ==
    IF attempt > 10 THEN JUndef
    ELSE JNum(IF attempt * 100 < 3000 THEN attempt * 100 ELSE 3000)

\* redis.Connector.js:132-141, Math.random() being rnd / RandomSteps:
\* floor(random * exp * 0.2) = floor(rnd * exp / (5 * RandomSteps))
retry_strategy(attempt, rnd) ==
    LET pow == RECONNECT_BASE_DELAY * 2^(attempt - 1)
        exp == IF pow < RECONNECT_MAX_DELAY THEN pow ELSE RECONNECT_MAX_DELAY
        jitter == (rnd * exp) \div (5 * RandomSteps)
    IN  JNum(exp + jitter)

\* redis.Connector.js:248-250
namespaceKey(key) == IF REDIS_VHOST = "" THEN key ELSE <<REDIS_VHOST, ":">> \o key

\* Redis glob matching for the patterns the code builds: the pattern's
\* trailing stars match any rest of the key
RECURSIVE StripStars(_)
StripStars(pat) ==
    IF Len(pat) > 0 /\ pat[Len(pat)] = "*" THEN StripStars(SubSeq(pat, 1, Len(pat) - 1))
    ELSE pat

GlobMatch(pat, key) ==
    LET p == StripStars(pat)
    IN  IF Len(p) = Len(pat) THEN key = pat
        ELSE Len(key) >= Len(p) /\ SubSeq(key, 1, Len(p)) = p

----------------------------------------------------------------------------
(* The backing store *)

\* the rows a SELECT returns on content v: v rows, each of that content
DbRows(v) == [j \in 1..v |-> v]

Header == [t |-> "header", affectedRows |-> 1]

\* what connection.query(sql) resolves to on content v
QueryResult(sql, v) == IF isWriteOperation(sql) THEN Header ELSE JArr(DbRows(v))

----------------------------------------------------------------------------
(* Cache operations: redis.Connector.js:187-315.                            *)
(* A cache operation in flight is a record; phase names the await it is at: *)
(*   wait    waitForConnection's promise (ready listener and timer set)     *)
(*   exists, getv, setex, scan, del    that Redis command                   *)
(*   done    safeExec has returned (out) or thrown (rejected)               *)

FirstPhase(kind, arg) ==
    CASE kind = "get" -> "exists"
      [] kind = "add" -> "setex"
      [] kind = "delk" -> "del"
      [] kind = "delp" -> IF Len(arg) = 0 THEN "done" ELSE "scan"

\* the fallback each public operation hands to safeExec
Fallback(o) ==
    CASE o.kind = "get" -> JArr(<<>>)
      [] o.kind = "add" -> o.val
      [] OTHER -> JUndef

\* the commands fn invokes when it starts: its first one, if it has any
FirstSent(kind, arg) == IF FirstPhase(kind, arg) = "done" THEN 0 ELSE 1

safeExecWithoutGuard(kind, arg, val) ==
    [kind |-> kind, arg |-> arg, val |-> val, n |-> 1,
     cursor |-> "0", keys |-> <<>>, i |-> 0, log |-> <<>>,
     phase |-> FirstPhase(kind, arg),
     sent |-> FirstSent(kind, arg),
     waited |-> ~isRedisReady, listener |-> FALSE, timer |-> FALSE,
     settled |-> FALSE, settles |-> 0,
     out |-> JUndef, failed |-> "", rejected |-> FALSE]

\* redis.Connector.js:221-225 with 187-190: safeExec up to its first command
\* (sent counts the Redis commands the operation has invoked)
safeExec(kind, arg, val) ==
    [kind |-> kind, arg |-> arg, val |-> val, n |-> 1,
     cursor |-> "0", keys |-> <<>>, i |-> 0, log |-> <<>>,
     phase |-> IF isRedisReady THEN FirstPhase(kind, arg) ELSE "wait",
     sent |-> IF isRedisReady THEN FirstSent(kind, arg) ELSE 0,
     waited |-> ~isRedisReady, listener |-> ~isRedisReady, timer |-> ~isRedisReady,
     settled |-> FALSE, settles |-> 0,
     out |-> JUndef, failed |-> "", rejected |-> FALSE]

getArrayItem(key) == safeExec("get", key, JUndef)
addArrayItem(key, array) == safeExec("add", key, array)
delPrefixKeyItem(keys) == safeExec("delp", IF keys.t = "array" THEN keys.v ELSE <<keys.v>>, JUndef)
delKeyItem(keys) == safeExec("delk", IF keys.t = "array" THEN keys.v ELSE <<keys.v>>, JUndef)

opReturns(o, out) ==
    [o EXCEPT !.phase = "done", !.out = out, !.cursor = "0", !.keys = <<>>, !.i = 0]

safeExecCatchNoFallback(o, why) ==
    [o EXCEPT !.phase = "done", !.failed = why, !.rejected = TRUE,
              !.cursor = "0", !.keys = <<>>, !.i = 0]

\* redis.Connector.js:226-230: every public operation passes a fallback
safeExecCatch(o, why) ==
    [o EXCEPT !.phase = "done", !.failed = why, !.out = Fallback(o),
              !.cursor = "0", !.keys = <<>>, !.i = 0]

\* delPrefixKeyItem's loop: on to the next prefix, or done
NextPrefix(o) ==
    IF o.n < Len(o.arg)
    THEN [o EXCEPT !.n = @ + 1, !.phase = "scan", !.cursor = "0", !.keys = <<>>, !.i = 0]
    ELSE opReturns(o, JUndef)

Without(f, ks) == [x \in DOMAIN f \ ks |-> f[x]]
With(f, k, v) == [x \in DOMAIN f \cup {k} |-> IF x = k THEN v ELSE f[x]]

Min(a, b) == IF a < b THEN a ELSE b
CeilDiv(a, b) == (a + b - 1) \div b

\* The Redis keyspace as SCAN walks it: a table of slots, a key with a numeric
\* last token in the slot of that number, every other key in slot 0; the table
\* ends after the last slot in use
Numeral == [j \in 0..MaxKeys |-> ToString(j)]

Slot(key) ==
    LET last == key[Len(key)]
    IN  IF \E j \in 1..MaxKeys : Numeral[j] = last
        THEN CHOOSE j \in 1..MaxKeys : Numeral[j] = last
        ELSE 0

RECURSIVE BySlot(_, _)
BySlot(keys, slotOf) ==
    IF keys = {} THEN <<>>
    ELSE LET first == CHOOSE x \in keys : \A y \in keys : slotOf[x] <= slotOf[y]
         IN  <<first>> \o BySlot(keys \ {first}, slotOf)

\* SCAN cursor MATCH pattern COUNT count: the keys of the next count slots that
\* match, and the cursor to go on with, '0' at the end of the table
scanAsync(cursor, pattern, count) ==
    LET slotOf == [key \in DOMAIN cache |-> Slot(key)]
        size == IF DOMAIN cache = {} THEN 1
                ELSE 1 + slotOf[CHOOSE x \in DOMAIN cache :
                                   \A y \in DOMAIN cache : slotOf[y] <= slotOf[x]]
        from == CHOOSE j \in 0..MaxKeys : Numeral[j] = cursor
        to == from + count
        found == {key \in DOMAIN cache :
                     /\ slotOf[key] >= from /\ slotOf[key] < to
                     /\ GlobMatch(pattern, key)}
    IN  [cursor |-> IF to >= size THEN "0" ELSE ToString(to), keys |-> BySlot(found, slotOf)]

scanKeysOnePage(o, pattern) ==
    LET page == scanAsync(o.cursor, pattern, ScanCount)
    IN  [o EXCEPT !.cursor = "0", !.keys = @ \o page.keys,
                  !.log = Append(@, [cmd |-> "scan", p |-> o.n, cursor |-> page.cursor,
                                     keys |-> page.keys])]

\* redis.Connector.js:235-244: one turn of scanKeys' loop, the operation at
\* its SCAN command
scanKeys(o, pattern) ==
    LET page == scanAsync(o.cursor, pattern, ScanCount)
    IN  [o EXCEPT !.cursor = page.cursor, !.keys = @ \o page.keys,
                  !.log = Append(@, [cmd |-> "scan", p |-> o.n, cursor |-> page.cursor,
                                     keys |-> page.keys])]

\* redis.Connector.js:309-311: the batch the operation's DEL command names
Batch(o) == SubSeq(o.keys, o.i + 1, Min(o.i + DEL_BATCH_SIZE, Len(o.keys)))

\* The answer to the command operation o is waiting for, and the run of the
\* operation up to its next command: [o |-> the operation, cache |-> the keyspace]
Reply(o) ==
    LET sent == o
        same(x) == [o |-> x, cache |-> cache]
    IN
    IF ~redisUp THEN same(safeExecCatch(sent, "command"))
    ELSE CASE o.phase = "exists" ->
                \* redis.Connector.js:261-268
                IF namespaceKey(o.arg) \in DOMAIN cache
                THEN same([sent EXCEPT !.phase = "getv"])
                ELSE same(opReturns(sent, JArr(<<>>)))
           [] o.phase = "getv" ->
                \* redis.Connector.js:265-266
                LET reply == IF namespaceKey(o.arg) \in DOMAIN cache
                             THEN cache[namespaceKey(o.arg)] ELSE NullReply
                IN  IF JSONparseThrows(reply) THEN same(safeExecCatch(sent, "parse"))
                    ELSE same(opReturns(sent, JSONparse(reply)))
           [] o.phase = "setex" ->
                \* redis.Connector.js:276-280
                [o |-> opReturns(sent, o.val),
                 cache |-> With(cache, namespaceKey(o.arg), JSONstringify(o.val))]
           [] o.phase = "scan" ->
                \* redis.Connector.js:235-244, 305-308; the server answers one page
                LET namespacedPattern == namespaceKey(o.arg[o.n] \o <<"*">>)
                    scanned == scanKeys(sent, namespacedPattern)
                IN  IF scanned.cursor # "0" THEN same(scanned)
                    ELSE IF Len(scanned.keys) = 0 THEN same(NextPrefix(scanned))
                    ELSE same([scanned EXCEPT !.phase = "del", !.i = 0])
           [] o.phase = "del" ->
                IF o.kind = "delk"
                THEN \* redis.Connector.js:287-295
                     [o |-> opReturns(sent, JUndef),
                      cache |-> Without(cache, {namespaceKey(o.arg[j]) : j \in 1..Len(o.arg)})]
                ELSE \* redis.Connector.js:308-311
                     LET batch == Batch(o)
                         deleted == [sent EXCEPT !.i = @ + DEL_BATCH_SIZE,
                                        !.log = Append(@, [cmd |-> "del", p |-> o.n,
                                                           cursor |-> "0", keys |-> batch])]
                     IN  [o |-> IF deleted.i < Len(o.keys) THEN deleted
                                ELSE NextPrefix(deleted),
                          cache |-> Without(cache, {batch[j] : j \in 1..Len(batch)})]

WaitTimedOutRejects(o) == safeExecCatchNoFallback(o, "timeout")

WaitTimedOutKeepsListener(o) ==
    IF o.settled THEN [o EXCEPT !.timer = FALSE]
    ELSE [safeExecCatch(o, "timeout") EXCEPT !.timer = FALSE, !.settled = TRUE,
                                             !.settles = @ + 1]

\* redis.Connector.js:202-207: the wait timer fires
WaitTimedOut(o) ==
    IF o.settled THEN [o EXCEPT !.timer = FALSE]
    ELSE [safeExecCatch(o, "timeout") EXCEPT !.timer = FALSE, !.settled = TRUE,
                                             !.listener = FALSE, !.settles = @ + 1]

\* redis.Connector.js:195-200, 209: the once-listener of 'ready' fires, and fn
\* starts
WaitReady(o) ==
    IF ~o.listener THEN o
    ELSE IF o.settled THEN [o EXCEPT !.listener = FALSE]
    ELSE LET r == [o EXCEPT !.listener = FALSE, !.settled = TRUE, !.timer = FALSE,
                            !.settles = @ + 1]
         IN  IF FirstPhase(o.kind, o.arg) = "done" THEN opReturns(r, JUndef)
             ELSE [r EXCEPT !.phase = FirstPhase(o.kind, o.arg), !.sent = @ + 1]

AllDone(cops) == \A j \in 1..Len(cops) : cops[j].phase = "done"
AnyRejected(cops) == \E j \in 1..Len(cops) : cops[j].rejected

RedisError == Err("Redis operation failed", "none")

----------------------------------------------------------------------------
(* Call frames.  The fields from acq on are observations of what the call   *)
(* did, kept for the properties; the code does not read them.                *)

NoError == Err("", "none")
NoResult == [kind |-> "none", v |-> JUndef, e |-> NoError]
ReturnOf(v) == [kind |-> "return", v |-> v, e |-> NoError]
ThrowOf(e) == [kind |-> "throw", v |-> JUndef, e |-> e]

TimeoutError == Err("Query timeout exceeded", "none")
PageSizeError == Err("Page size must be greater than 0", "none")

IdleFrame ==
    [op |-> "idle", pc |-> "idle", i |-> 0,
     sql |-> <<>>, parameters |-> JUndef, cacheName |-> JUndef, key |-> <<>>, reset |-> JNull, useDb |-> FALSE, timeout |-> FALSE,
     page |-> JUndef, pageSize |-> 0, offset |-> JUndef, paginatedSql |-> <<>>,
     records |-> 0, chunkSize |-> 0,
     conn |-> "undefined", cached |-> JUndef, data |-> JUndef, total |-> 0,
     off |-> 0, inserted |-> 0, chunks |-> 0, sends |-> <<>>, cops |-> <<>>,
     buffer |-> <<>>, nops |-> 0, txw |-> 0, cbErr |-> NoError, ret |-> JUndef,
     res |-> NoResult, abandoned |-> FALSE,
     acq |-> 0, rel |-> 0, dbl |-> FALSE, aAcq |-> 0, aStmts |-> 0,
     stmtOk |-> FALSE, dels |-> <<>>, stored |-> <<>>, cacheOk |-> FALSE, lookupOk |-> FALSE,
     commits |-> 0, committed |-> FALSE, rollbacks |-> 0, rollbackFailed |-> FALSE,
     failedAt |-> "", lastErr |-> NoError, waits |-> <<>>, late |-> FALSE]

Frame(c) == calls[c]
SetFrame(c, k) == calls' = [calls EXCEPT ![c] = k]

\* the caller's promise settles: once
Settle(k, res) == IF k.res.kind = "none" THEN [k EXCEPT !.res = res] ELSE k

Done(k, res) == [Settle(k, res) EXCEPT !.pc = "done", !.cops = <<>>]

releaseForgotten(k) == k

\* the finally blocks, dbConnector.js:173-177, 232-236, 300-304, 363-367,
\* 407-411, 575-579: if (connection) connection.release()
releaseInFinally(k) ==
    IF k.conn = "undefined" THEN k
    ELSE [k EXCEPT !.rel = @ + 1, !.dbl = @ \/ k.conn = "released", !.conn = "released"]

backoffDelayOneBased(delay, i) == delay * 2^(i + 1)

\* dbConnector.js:126: delay * Math.pow(2, i)
backoffDelay(delay, i) == delay * 2^i

retryCatchOneMore(k, error) ==
    LET k1 == [k EXCEPT !.lastErr = error]
    IN  IF k.i = Retries THEN Done(k1, ThrowOf(error))
        ELSE IF IsRetryable(error)
             THEN [k1 EXCEPT !.pc = "backoff", !.cops = <<>>,
                             !.waits = Append(@, backoffDelay(BaseDelay, k.i))]
             ELSE Done(k1, ThrowOf(error))

\* dbConnector.js:117-130: the catch of executeWithRetry on attempt k.i
\* (lastErr and waits record the error caught and the backoff waits set)
retryCatch(k, error) ==
    LET k1 == [k EXCEPT !.lastErr = error]
    IN  IF k.i = Retries - 1 THEN Done(k1, ThrowOf(error))
        ELSE IF IsRetryable(error)
             THEN [k1 EXCEPT !.pc = "backoff", !.cops = <<>>,
                             !.waits = Append(@, backoffDelay(BaseDelay, k.i))]
             ELSE Done(k1, ThrowOf(error))

\* the attempt function throws: catch { throw err } finally { release }, then
\* the catch of executeWithRetry, unless the timeout race has settled already
fnThrows(k, error) ==
    IF k.abandoned THEN Done(releaseInFinally(k), ThrowOf(error))
    ELSE retryCatch(releaseInFinally(k), error)

\* the attempt function returns v: finally { release }; executeWithRetry returns v
fnReturns(k, v) == Done(releaseInFinally(k), ReturnOf(v))

----------------------------------------------------------------------------
(* The attempt functions of the operations wrapped in executeWithRetry,     *)
(* from one await to the next                                                *)

ReadOps == {"getCacheQuery", "getCacheQueryWithTimeout"}

\* the rows a statement with LIMIT offset, size appended returns
Limit(rows, offset, size) ==
    IF offset >= Len(rows) THEN <<>> ELSE SubSeq(rows, offset + 1, Min(offset + size, Len(rows)))

BulkResult(insertedRows, chunks) == [t |-> "bulk", insertedRows |-> insertedRows, chunks |-> chunks]

\* dbConnector.js:159-170: QuaryCache after its statement
invalidateAfterQuery(k) ==
    LET patterns == determineInvalidationPatterns(k.sql, k.reset)
    IN  IF REDIS_ENABLED /\ Len(patterns) > 0
        THEN [k EXCEPT !.pc = "inval", !.dels = @ \o patterns,
                       !.cops = [j \in 1..Len(patterns) |-> delPrefixKeyItem(JStr(patterns[j]))]]
        ELSE fnReturns(k, k.data)

storeUnderSql(k) ==
    IF REDIS_ENABLED
    THEN [k EXCEPT !.pc = "add", !.cops = <<addArrayItem(k.sql, k.data)>>]
    ELSE fnReturns(k, k.data)

storeAfterQueryUnguarded(k) ==
    [k EXCEPT !.pc = "add", !.cops = <<addArrayItem(k.key, k.data)>>]

\* dbConnector.js:225-229, 293-297, 400-404: the read operations after their
\* (last) statement
storeAfterQuery(k) ==
    IF REDIS_ENABLED
    THEN [k EXCEPT !.pc = "add", !.cops = <<addArrayItem(k.key, k.data)>>]
    ELSE fnReturns(k, k.data)

\* dbConnector.js:356-360: bulkInsert after its last chunk
resetAfterChunks(k) ==
    LET result == BulkResult(k.inserted, k.chunks)
    IN  IF Truthy(k.reset) /\ REDIS_ENABLED
        THEN [k EXCEPT !.pc = "inval", !.data = result, !.dels = Append(@, k.reset),
                       !.cops = <<delPrefixKeyItem(k.reset)>>]
        ELSE fnReturns([k EXCEPT !.data = result], result)

cacheHitIgnored(k, cachedData) ==
    IF ~HasLength(cachedData) THEN fnThrows([k EXCEPT !.cached = cachedData], TypeError)
    ELSE [k EXCEPT !.pc = "conn", !.cops = <<>>, !.cached = cachedData]

afterGetArrayItemMoreThanOne(k, cachedData) ==
    IF ~HasLength(cachedData) THEN fnThrows([k EXCEPT !.cached = cachedData], TypeError)
    ELSE IF LengthPositive(cachedData) /\ Len(cachedData.v) > 1
         THEN fnReturns([k EXCEPT !.cached = cachedData], cachedData)
         ELSE [k EXCEPT !.pc = "conn", !.cops = <<>>, !.cached = cachedData]

\* dbConnector.js:213-217, 388-392: the continuation of `await getArrayItem(...)`
afterGetArrayItem(k, cachedData) ==
    IF ~HasLength(cachedData) THEN fnThrows([k EXCEPT !.cached = cachedData], TypeError)
    ELSE IF LengthPositive(cachedData)
         THEN fnReturns([k EXCEPT !.cached = cachedData], cachedData)
         ELSE [k EXCEPT !.pc = "conn", !.cops = <<>>, !.cached = cachedData]

afterGetArrayItemPageByLength(k, cachedData) == afterGetArrayItem(k, cachedData)

\* dbConnector.js:264-268: the same in getCacheQueryPagination
afterGetArrayItemPage(k, cachedData) ==
    IF cachedData.t \in {"object", "header", "bulk"}
    THEN fnReturns([k EXCEPT !.cached = cachedData], cachedData)
    ELSE [k EXCEPT !.pc = "conn", !.cops = <<>>, !.cached = cachedData]

----------------------------------------------------------------------------
(* withTransaction, dbConnector.js:460-580 *)

CallbackResult == JStr(<<"callback", "result">>)

\* [...new Set(buffer)]: the first occurrence of each pattern, in order
RECURSIVE Unique(_)
Unique(seq) ==
    IF seq = <<>> THEN <<>>
    ELSE LET front == Unique(SubSeq(seq, 1, Len(seq) - 1))
             last == seq[Len(seq)]
         IN  IF \E j \in 1..Len(front) : front[j] = last THEN front ELSE Append(front, last)

\* dbConnector.js:565-574: the catch of withTransaction; rollback is invoked
\* when a connection was obtained
catchTxWithoutRollback(k, error) ==
    IF k.conn = "undefined" THEN Done([k EXCEPT !.failedAt = k.pc], ThrowOf(error))
    ELSE Done(releaseInFinally([k EXCEPT !.cbErr = error, !.failedAt = k.pc]), ThrowOf(error))

catchTx(k, error) ==
    IF k.conn = "undefined" THEN Done([k EXCEPT !.failedAt = k.pc], ThrowOf(error))
    ELSE [k EXCEPT !.pc = "tx_rollback", !.cbErr = error, !.rollbacks = @ + 1, !.cops = <<>>,
                   !.failedAt = k.pc]

rollbackErrorMasks(k, ok) ==
    Done(releaseInFinally(k), ThrowOf(IF ok THEN k.cbErr ELSE RollbackError))

\* dbConnector.js:568-579: rollback settles (a failure is only logged), the
\* error is thrown again, finally releases
rollbackSettles(k, ok) == Done(releaseInFinally(k), ThrowOf(k.cbErr))

txQueryInvalidatesAtOnce(k) ==
    LET patterns == determineInvalidationPatterns(k.sql, k.reset)
    IN  IF REDIS_ENABLED /\ Len(patterns) > 0
        THEN [k EXCEPT !.pc = "tx_add", !.ret = k.data, !.dels = @ \o patterns,
                       !.cops = [j \in 1..Len(patterns) |-> delPrefixKeyItem(JStr(patterns[j]))]]
        ELSE [k EXCEPT !.pc = "tx_cb", !.ret = k.data]

\* dbConnector.js:492-500: tx.query after its statement
txQueryBuffers(k) ==
    LET patterns == determineInvalidationPatterns(k.sql, k.reset)
    IN  [k EXCEPT !.pc = "tx_cb", !.ret = k.data,
                  !.buffer = IF REDIS_ENABLED /\ Len(patterns) > 0 THEN @ \o patterns ELSE @]

flushWithoutSet(k) ==
    IF REDIS_ENABLED /\ Len(k.buffer) > 0
    THEN [k EXCEPT !.pc = "tx_flush", !.dels = @ \o k.buffer,
                   !.cops = [j \in 1..Len(k.buffer) |-> delPrefixKeyItem(JStr(k.buffer[j]))]]
    ELSE Done(releaseInFinally(k), ReturnOf(CallbackResult))

flushNotAwaited(k) ==
    LET uniquePatterns == Unique(k.buffer)
    IN  IF REDIS_ENABLED /\ Len(k.buffer) > 0
        THEN [Settle(k, ReturnOf(CallbackResult)) EXCEPT
                       !.pc = "tx_flush", !.dels = @ \o uniquePatterns,
                       !.cops = [j \in 1..Len(uniquePatterns) |->
                                    delPrefixKeyItem(JStr(uniquePatterns[j]))]]
        ELSE Done(releaseInFinally(k), ReturnOf(CallbackResult))

\* the buffers of all the transactions in flight, as one module-level buffer
\* would hold them
RECURSIVE SharedBuffer(_)
SharedBuffer(n) == IF n = 0 THEN <<>> ELSE SharedBuffer(n - 1) \o calls[n].buffer

flushSharedBuffer(k) ==
    LET uniquePatterns == Unique(SharedBuffer(Cardinality(DOMAIN calls)) \o k.buffer)
    IN  IF REDIS_ENABLED /\ Len(uniquePatterns) > 0
        THEN [k EXCEPT !.pc = "tx_flush", !.dels = @ \o uniquePatterns,
                       !.cops = [j \in 1..Len(uniquePatterns) |->
                                    delPrefixKeyItem(JStr(uniquePatterns[j]))]]
        ELSE Done(releaseInFinally(k), ReturnOf(CallbackResult))

\* dbConnector.js:555-564, 575-579: withTransaction after its commit
flushAfterCommit(k) ==
    LET uniquePatterns == Unique(k.buffer)
    IN  IF REDIS_ENABLED /\ Len(k.buffer) > 0
        THEN [k EXCEPT !.pc = "tx_flush", !.dels = @ \o uniquePatterns,
                       !.cops = [j \in 1..Len(uniquePatterns) |->
                                    delPrefixKeyItem(JStr(uniquePatterns[j]))]]
        ELSE Done(releaseInFinally(k), ReturnOf(CallbackResult))

\* dbConnector.js:524-533: tx.getCacheQuery up to its first await
txGetCacheQueryStart(k) ==
    IF REDIS_ENABLED THEN [k EXCEPT !.pc = "tx_get", !.cops = <<getArrayItem(k.key)>>]
    ELSE [k EXCEPT !.pc = "tx_gq"]

\* dbConnector.js:526-533: the continuation of `await getArrayItem(...)`
afterTxGetArrayItem(k, cachedData) ==
    IF ~HasLength(cachedData) THEN catchTx([k EXCEPT !.cached = cachedData], TypeError)
    ELSE IF LengthPositive(cachedData)
         THEN [k EXCEPT !.pc = "tx_cb", !.cops = <<>>, !.cached = cachedData,
                        !.ret = cachedData]
         ELSE [k EXCEPT !.pc = "tx_gq", !.cops = <<>>, !.cached = cachedData]

\* dbConnector.js:533-538: tx.getCacheQuery after its statement
txStoreAfterQuery(k) ==
    IF REDIS_ENABLED
    THEN [k EXCEPT !.pc = "tx_add", !.cops = <<addArrayItem(k.key, k.data)>>]
    ELSE [k EXCEPT !.pc = "tx_cb", !.ret = k.data]

----------------------------------------------------------------------------
(* The continuation of a call once the cache operations it awaits are done *)

\* (lookupOk records that the call's last getArrayItem ran without a failure)
Resume(k) ==
    CASE k.pc = "get" ->
            IF k.cops[1].rejected THEN fnThrows(k, RedisError)
            ELSE IF k.op = "getCacheQueryPagination"
                 THEN afterGetArrayItemPage(k, k.cops[1].out)
                 ELSE afterGetArrayItem([k EXCEPT !.lookupOk = k.cops[1].failed = ""],
                                        k.cops[1].out)
      [] k.pc = "add" ->
            IF k.cops[1].rejected THEN fnThrows(k, RedisError)
            ELSE fnReturns(k, k.data)
      [] k.pc = "inval" ->
            IF AnyRejected(k.cops) THEN fnThrows(k, RedisError)
            ELSE fnReturns(k, k.data)
      [] k.pc = "tx_get" ->
            IF k.cops[1].rejected THEN catchTx(k, RedisError)
            ELSE afterTxGetArrayItem(k, k.cops[1].out)
      [] k.pc = "tx_add" ->
            IF AnyRejected(k.cops) THEN catchTx(k, RedisError)
            ELSE [k EXCEPT !.pc = "tx_cb", !.cops = <<>>, !.ret = k.data]
      [] k.pc = "tx_flush" ->
            IF AnyRejected(k.cops) THEN catchTx(k, RedisError)
            ELSE Done(releaseInFinally(k), ReturnOf(CallbackResult))
      [] k.pc = "api" ->
            [Settle(k, IF k.cops[1].rejected THEN ThrowOf(RedisError)
                       ELSE ReturnOf(k.cops[1].out)) EXCEPT !.pc = "done"]

CachePcs == {"get", "add", "inval", "tx_get", "tx_add", "tx_flush", "api"}

ResumeIfDone(k) == IF k.pc \in CachePcs /\ AllDone(k.cops) THEN Resume(k) ELSE k

pageSizeInvalidZeroOnly(pageSize) == pageSize = 0

\* dbConnector.js:259: if (pageSize <= 0)
pageSizeInvalid(pageSize) == pageSize <= 0

\* the attempt function up to its first await, dbConnector.js:150-153,
\* 209-219, 256-270, 326-328, 384-394
fnStart(k) ==
    LET k0 == [k EXCEPT !.conn = "undefined", !.cached = JUndef, !.data = JUndef,
                        !.total = 0, !.off = 0, !.inserted = 0, !.chunks = 0,
                        !.aAcq = 0, !.aStmts = 0, !.stmtOk = FALSE,
                        !.lastErr = NoError, !.offset = JUndef, !.paginatedSql = <<>>]
    IN  CASE k.op \in ReadOps ->
                 IF REDIS_ENABLED
                 THEN [k0 EXCEPT !.pc = "get", !.cops = <<getArrayItem(k.key)>>]
                 ELSE [k0 EXCEPT !.pc = "conn"]
          [] k.op = "getCacheQueryPagination" ->
                 IF pageSizeInvalid(k.pageSize) THEN fnThrows(k0, PageSizeError)
                 ELSE IF REDIS_ENABLED
                      THEN [k0 EXCEPT !.pc = "get", !.cops = <<getArrayItem(k.key)>>]
                      ELSE [k0 EXCEPT !.pc = "conn"]
          [] k.op \in {"QuaryCache", "bulkInsert"} -> [k0 EXCEPT !.pc = "conn"]

attemptStartUnchecked(k) == fnStart(k)

\* dbConnector.js:101-116: one turn of executeWithRetry's loop up to the
\* first await of the attempt function
attemptStart(k) ==
    IF isShuttingDown THEN retryCatch(k, ShutdownError) ELSE fnStart(k)

\* the continuation of `const [data] = await connection.query(...)` with rows
afterQuery(k) ==
    CASE k.op \in ReadOps -> storeAfterQuery(k)
      [] k.op = "QuaryCache" -> invalidateAfterQuery(k)

----------------------------------------------------------------------------
(* The cache key of a read, dbConnector.js:196-207, 512-522 *)

CacheNameError == Err("cacheName is required", "none")
CacheNameTxError == Err("cacheName is required in transaction", "none")

\* core/autoKey.js:23-25
isAutoKeyEnabled == autoKeyEnabled

finalCacheNameDerivedFirst(sql, parameters, cacheName, error) ==
    IF isAutoKeyEnabled THEN generateCacheKey(sql, parameters, [strategy |-> ""])
    ELSE IF Truthy(cacheName) THEN KeyReturn(cacheName.v)
    ELSE [kind |-> "throw", v |-> error]

\* dbConnector.js:197-207, 513-522: the supplied name, else a derived key,
\* else the error
finalCacheName(sql, parameters, cacheName, error) ==
    IF Truthy(cacheName) THEN KeyReturn(cacheName.v)
    ELSE IF isAutoKeyEnabled THEN generateCacheKey(sql, parameters, [strategy |-> ""])
    ELSE [kind |-> "throw", v |-> error]

\* the rejection of a tx call, as the callback receives it
Rejected(error) == [t |-> "rejected", v |-> error]

----------------------------------------------------------------------------
(* Actions: the application's calls *)

Keys == {KeyUsersList}
Resets == {JNull, JStr(PatUsersList)}

others == <<cache, dbVersion, isRedisReady, lastEventReady, redisUp, isShuttingDown, cfgVars, pureVars>>

\* late: the call is issued after closeConnections has set the shutdown flag
NewCall(op) == [IdleFrame EXCEPT !.op = op, !.late = isShuttingDown]

\* getCacheQuery(sql, parameters, cacheName, database), dbConnector.js:195-238
StartGetCacheQuery(c) ==
    /\ Frame(c).pc = "idle"
    /\ \E key \in Keys, useDb \in BOOLEAN :
          SetFrame(c, attemptStart([NewCall("getCacheQuery") EXCEPT
                          !.sql = SqlSelectUsers, !.cacheName = JStr(key),
                          !.key = finalCacheName(SqlSelectUsers, JUndef, JStr(key),
                                                 CacheNameError).v,
                          !.useDb = useDb]))
    /\ UNCHANGED others

\* statements and parameters of the reads that leave the cache name out
UnnamedReads == { <<SqlSelectUsers, JArr(<<>>)>>, <<SqlSelectById, JArr(<<"1">>)>> }

\* no cache name: the default null, or an empty string
NoNames == { JNull, JStr(<<>>) }

\* getCacheQuery(sql, parameters) without a cache name, dbConnector.js:195-238
StartGetCacheQueryUnnamed(c) ==
    /\ Frame(c).pc = "idle"
    /\ \E read \in UnnamedReads, cacheName \in NoNames :
          LET k == [NewCall("getCacheQuery") EXCEPT
                          !.sql = read[1], !.parameters = read[2], !.cacheName = cacheName]
              name == finalCacheName(k.sql, k.parameters, k.cacheName, CacheNameError)
          IN  SetFrame(c, IF name.kind = "throw" THEN Done(k, ThrowOf(name.v))
                          ELSE attemptStart([k EXCEPT !.key = name.v]))
    /\ UNCHANGED others

\* getCacheQueryWithTimeout(sql, parameters, cacheName, options), dbConnector.js:382-413
StartGetCacheQueryWithTimeout(c) ==
    /\ Frame(c).pc = "idle"
    /\ \E key \in Keys :
          SetFrame(c, attemptStart([NewCall("getCacheQueryWithTimeout") EXCEPT
                          !.sql = SqlSelectUsers, !.key = key, !.timeout = TRUE]))
    /\ UNCHANGED others

\* QuaryCache(sql, parameters, resetCacheName, database), dbConnector.js:149-179
StartQuaryCache(c) ==
    /\ Frame(c).pc = "idle"
    /\ \E sql \in {SqlInsertUsers, SqlSelectUsers}, reset \in Resets, useDb \in BOOLEAN :
          SetFrame(c, attemptStart([NewCall("QuaryCache") EXCEPT
                          !.sql = sql, !.reset = reset, !.useDb = useDb]))
    /\ UNCHANGED others

\* getCacheQueryPagination(sql, parameters, cacheName, page, pageSize), dbConnector.js:254-306
StartGetCacheQueryPagination(c) ==
    /\ Frame(c).pc = "idle"
    /\ \E key \in Keys, page \in {JNum(0)}, pageSize \in {0, 1} :
          SetFrame(c, attemptStart([NewCall("getCacheQueryPagination") EXCEPT
                          !.sql = SqlSelectUsers, !.key = key, !.page = page,
                          !.pageSize = pageSize]))
    /\ UNCHANGED others

\* bulkInsert(table, records, options), dbConnector.js:318-369
StartBulkInsert(c) ==
    /\ Frame(c).pc = "idle"
    /\ \E records \in 0..MaxRecords, chunkSize \in {1, 2}, reset \in Resets :
          LET k == [NewCall("bulkInsert") EXCEPT !.sql = SqlInsertUsers, !.records = records,
                                                 !.chunkSize = chunkSize, !.reset = reset,
                                                 !.sends = [r \in 1..records |-> 0]]
          IN  SetFrame(c, IF records = 0 THEN Done(k, ReturnOf(BulkResult(0, 0)))
                          ELSE attemptStart(k))
    /\ UNCHANGED others

\* withTransaction(callback, options), dbConnector.js:460-470
StartWithTransaction(c) ==
    /\ Frame(c).pc = "idle"
    /\ \E useDb \in BOOLEAN :
          LET k == [NewCall("withTransaction") EXCEPT !.useDb = useDb]
          IN  SetFrame(c, IF isShuttingDown THEN catchTx(k, ShutdownTxError)
                          ELSE [k EXCEPT !.pc = "tx_conn"])
    /\ UNCHANGED others

\* a direct call of getArrayItem, addArrayItem, delKeyItem or delPrefixKeyItem
\* (index.js:22-25), redis.Connector.js:260-315
StartCacheCall(c) ==
    /\ Frame(c).pc = "idle"
    /\ \E key \in Keys :
       \E o \in { getArrayItem(key), addArrayItem(key, JArr(<<7>>)), delKeyItem(JStr(key)),
                  delPrefixKeyItem(JArr(<<PatUsersList, <<"users", ":">> >>)) } :
          SetFrame(c, ResumeIfDone([NewCall(o.kind) EXCEPT !.pc = "api", !.cops = <<o>>]))
    /\ UNCHANGED others

\* the application has the result; the slot is free for the next call
Finish(c) ==
    /\ Frame(c).pc = "done"
    /\ SetFrame(c, IdleFrame)
    /\ UNCHANGED others

----------------------------------------------------------------------------
(* Actions: timers *)

\* dbConnector.js:126: the backoff timer fires and the loop's next turn starts
Backoff(c) ==
    /\ Frame(c).pc = "backoff"
    /\ SetFrame(c, attemptStart([Frame(c) EXCEPT !.i = @ + 1]))
    /\ UNCHANGED others

TimeoutCancels(c) ==
    /\ Frame(c).timeout
    /\ Frame(c).pc \notin {"idle", "backoff", "done"}
    /\ ~Frame(c).abandoned
    /\ SetFrame(c, [Done(Frame(c), ThrowOf(TimeoutError)) EXCEPT !.abandoned = TRUE])
    /\ UNCHANGED others

\* dbConnector.js:108-113: the timer of the timeout race fires first; its
\* error has no code, so the call rejects; the attempt function runs on
TimeoutFires(c) ==
    /\ Frame(c).timeout
    /\ Frame(c).pc \notin {"idle", "backoff", "done"}
    /\ ~Frame(c).abandoned
    /\ SetFrame(c, [Settle(Frame(c), ThrowOf(TimeoutError)) EXCEPT !.abandoned = TRUE])
    /\ UNCHANGED others

\* redis.Connector.js:202-207: the wait timer of one of the call's cache operations fires
WaitTimeout(c) ==
    /\ \E j \in 1..Len(Frame(c).cops) :
          /\ Frame(c).cops[j].timer
          /\ SetFrame(c, ResumeIfDone([Frame(c) EXCEPT !.cops[j] = WaitTimedOut(@)]))
    /\ UNCHANGED others

----------------------------------------------------------------------------
(* Actions: the pool and the MySQL server answer *)

stmt(k) == [k EXCEPT !.aStmts = @ + 1]

FirstQueryPc(k) ==
    CASE k.op = "getCacheQueryPagination" -> "count"
      [] k.op = "bulkInsert" -> "chunk"
      [] OTHER -> "query"

invalidateBeforeQuery(k) ==
    IF k.op = "QuaryCache" THEN invalidateAfterQuery([k EXCEPT !.conn = "held"])
    ELSE [k EXCEPT !.conn = "held", !.pc = IF k.useDb THEN "use" ELSE FirstQueryPc(k)]

\* dbConnector.js:153-157, 219-223, 270-276, 328-351, 394-398: the attempt
\* function goes on with the connection, to its first statement
afterGetConnection(k) ==
    [k EXCEPT !.conn = "held", !.pc = IF k.useDb THEN "use" ELSE FirstQueryPc(k)]

\* dbConnector.js:153, 219, 270, 328, 394: con.getConnection() settles
GetConnection(c) ==
    /\ Frame(c).pc = "conn"
    /\ SetFrame(c, afterGetConnection([Frame(c) EXCEPT !.acq = @ + 1, !.aAcq = @ + 1]))
    /\ UNCHANGED others

\* the same: con.getConnection() rejects
GetConnectionFails(c) ==
    /\ Frame(c).pc = "conn"
    /\ \E e \in DbErrors : SetFrame(c, fnThrows(Frame(c), e))
    /\ UNCHANGED others

\* the same, with any error
GetConnectionFailsAny(c) ==
    /\ Frame(c).pc = "conn"
    /\ \E e \in AnyDbErrors : SetFrame(c, fnThrows(Frame(c), e))
    /\ UNCHANGED others

\* dbConnector.js:154-156, 220-222, 395-397: USE `db` settles
UseDatabase(c) ==
    /\ Frame(c).pc = "use"
    /\ SetFrame(c, [stmt(Frame(c)) EXCEPT !.pc = FirstQueryPc(Frame(c))])
    /\ UNCHANGED others

\* dbConnector.js:157, 223, 398: connection.query(sql, parameters) settles
Query(c) ==
    /\ Frame(c).pc = "query"
    /\ isWriteOperation(Frame(c).sql) => dbVersion < MaxWrites
    /\ SetFrame(c, afterQuery([stmt(Frame(c)) EXCEPT
                                  !.data = QueryResult(Frame(c).sql, dbVersion),
                                  !.stmtOk = TRUE]))
    /\ dbVersion' = IF isWriteOperation(Frame(c).sql) THEN dbVersion + 1 ELSE dbVersion
    /\ UNCHANGED <<cache, isRedisReady, lastEventReady, redisUp, isShuttingDown, cfgVars, pureVars>>

\* dbConnector.js:154-157, 171-172, 220-223, 230-231, 276-280, 298-299, 395-398,
\* 405-406: the statement the attempt function awaits rejects
StatementFails(c) ==
    /\ Frame(c).pc \in {"use", "query", "count", "page"}
    /\ \E e \in DbErrors : SetFrame(c, fnThrows(stmt(Frame(c)), e))
    /\ UNCHANGED others

\* the same, with any error
StatementFailsAny(c) ==
    /\ Frame(c).pc \in {"use", "query", "count", "page"}
    /\ \E e \in AnyDbErrors : SetFrame(c, fnThrows(stmt(Frame(c)), e))
    /\ UNCHANGED others

\* dbConnector.js:280-281: `${sql} LIMIT ${offset}, ${pageSize}`
paginate(sql, offset, pageSize) ==
    sql \o <<"LIMIT", NumberToString(offset), ",", ToString(pageSize)>>

\* dbConnector.js:276-281: the counting pass of getCacheQueryPagination
\* settles; the paginated statement is built and sent
CountQuery(c) ==
    /\ Frame(c).pc = "count"
    /\ LET k == Frame(c)
           offset == Times(k.page, k.pageSize)
       IN  SetFrame(c, [stmt(k) EXCEPT !.pc = "page", !.total = Len(DbRows(dbVersion)),
                                       !.offset = offset,
                                       !.paginatedSql = paginate(k.sql, offset, k.pageSize)])
    /\ UNCHANGED others

\* the MySQL server accepts the paginated statement: LIMIT takes non-negative
\* integers, and nothing may follow the semicolon that ends a statement
SyntaxOk(k) ==
    /\ k.offset.t = "number"
    /\ k.offset.v >= 0
    /\ \A j \in 1..Len(k.sql) : k.sql[j] # ";"

ParseError == Err("You have an error in your SQL syntax", "ER_PARSE_ERROR")

\* dbConnector.js:284: the server rejects the paginated statement
PageQueryRejected(c) ==
    /\ Frame(c).pc = "page"
    /\ ~SyntaxOk(Frame(c))
    /\ SetFrame(c, fnThrows(stmt(Frame(c)), ParseError))
    /\ UNCHANGED others

\* dbConnector.js:280-297: the paginated statement settles
PageQuery(c) ==
    /\ Frame(c).pc = "page"
    /\ SyntaxOk(Frame(c))
    /\ LET k == Frame(c)
           detail == Limit(DbRows(dbVersion), k.offset.v, k.pageSize)
       IN  SetFrame(c, storeAfterQuery([stmt(k) EXCEPT
                           !.stmtOk = TRUE,
                           !.data = JObj(k.total, CeilDiv(k.total, k.pageSize), detail)]))
    /\ UNCHANGED others

\* dbConnector.js:338-354: the insert of one chunk settles
ChunkQuery(c) ==
    /\ Frame(c).pc = "chunk"
    /\ \/ /\ dbVersion < MaxWrites
          /\ LET k == Frame(c)
                 size == Min(k.chunkSize, k.records - k.off)
                 k1 == [stmt(k) EXCEPT !.off = @ + k.chunkSize, !.inserted = @ + size,
                                       !.chunks = @ + 1, !.stmtOk = TRUE,
                                       !.sends = [r \in 1..k.records |->
                                                     IF r > k.off /\ r <= k.off + size
                                                     THEN @[r] + 1 ELSE @[r]]]
             IN  SetFrame(c, IF k1.off < k1.records THEN k1 ELSE resetAfterChunks(k1))
          /\ dbVersion' = dbVersion + 1
       \/ /\ \E e \in DbErrors : SetFrame(c, fnThrows(stmt(Frame(c)), e))
          /\ UNCHANGED dbVersion
    /\ UNCHANGED <<cache, isRedisReady, lastEventReady, redisUp, isShuttingDown, cfgVars, pureVars>>

\* dbConnector.js:470: con.getConnection() of withTransaction settles
TxGetConnection(c) ==
    /\ Frame(c).pc = "tx_conn"
    /\ \/ SetFrame(c, [Frame(c) EXCEPT !.conn = "held", !.acq = @ + 1, !.aAcq = @ + 1,
                                       !.pc = IF Frame(c).useDb THEN "tx_use" ELSE "tx_begin"])
       \/ \E e \in DbErrors : SetFrame(c, catchTx(Frame(c), e))
    /\ UNCHANGED others

\* dbConnector.js:473-475: USE `database` settles
TxUseDatabase(c) ==
    /\ Frame(c).pc = "tx_use"
    /\ \/ SetFrame(c, [stmt(Frame(c)) EXCEPT !.pc = "tx_begin"])
       \/ \E e \in DbErrors : SetFrame(c, catchTx(stmt(Frame(c)), e))
    /\ UNCHANGED others

\* dbConnector.js:478: connection.beginTransaction() settles
TxBegin(c) ==
    /\ Frame(c).pc = "tx_begin"
    /\ \/ SetFrame(c, [Frame(c) EXCEPT !.pc = "tx_cb"])
       \/ \E e \in DbErrors : SetFrame(c, catchTx(Frame(c), e))
    /\ UNCHANGED others

\* dbConnector.js:550: the callback calls tx.query or tx.getCacheQuery, returns or throws
Callback(c) ==
    /\ Frame(c).pc = "tx_cb"
    /\ LET k == [Frame(c) EXCEPT !.aAcq = 0, !.aStmts = 0, !.cacheName = JUndef,
                                 !.cached = JUndef, !.data = JUndef, !.ret = JUndef]
       IN  \/ /\ k.nops < MaxTxOps
              /\ \E w \in { <<SqlInsertUsers, JNull>>, <<SqlInsertUsers, JStr(PatUsersList)>>,
                            <<SqlUpdateOrders, JNull>> } :
                    SetFrame(c, [k EXCEPT !.pc = "tx_query", !.nops = @ + 1,
                                          !.sql = w[1], !.reset = w[2]])
           \/ /\ k.nops < MaxTxOps
              /\ \E key \in Keys :
                    SetFrame(c, txGetCacheQueryStart([k EXCEPT !.nops = @ + 1,
                                        !.sql = SqlSelectUsers, !.cacheName = JStr(key),
                                        !.key = finalCacheName(SqlSelectUsers, JUndef, JStr(key),
                                                               CacheNameTxError).v]))
           \/ SetFrame(c, [k EXCEPT !.pc = "tx_commit", !.commits = @ + 1])
           \/ SetFrame(c, catchTx(k, CallbackError))
    /\ UNCHANGED others

\* dbConnector.js:511-533: the callback calls tx.getCacheQuery without a cache
\* name; a rejection goes to the callback
CallbackUnnamed(c) ==
    /\ Frame(c).pc = "tx_cb"
    /\ Frame(c).nops < MaxTxOps
    /\ \E read \in UnnamedReads, cacheName \in NoNames :
          LET k == [Frame(c) EXCEPT !.aAcq = 0, !.aStmts = 0, !.cached = JUndef,
                                    !.data = JUndef, !.ret = JUndef, !.nops = @ + 1,
                                    !.sql = read[1], !.parameters = read[2],
                                    !.cacheName = cacheName]
              name == finalCacheName(k.sql, k.parameters, k.cacheName, CacheNameTxError)
          IN  SetFrame(c, IF name.kind = "throw" THEN [k EXCEPT !.ret = Rejected(name.v)]
                          ELSE txGetCacheQueryStart([k EXCEPT !.key = name.v]))
    /\ UNCHANGED others

\* dbConnector.js:550, 565: the callback lets the rejection of its tx call
\* propagate
CallbackRethrows(c) ==
    /\ Frame(c).pc = "tx_cb"
    /\ Frame(c).ret.t = "rejected"
    /\ SetFrame(c, catchTx(Frame(c), Frame(c).ret.v))
    /\ UNCHANGED others

\* dbConnector.js:490: the statement of tx.query settles
TxQuery(c) ==
    /\ Frame(c).pc = "tx_query"
    /\ \/ /\ dbVersion + Frame(c).txw < MaxWrites
          /\ SetFrame(c, txQueryBuffers([stmt(Frame(c)) EXCEPT !.data = Header, !.txw = @ + 1]))
       \/ \E e \in DbErrors : SetFrame(c, catchTx(stmt(Frame(c)), e))
    /\ UNCHANGED others

\* dbConnector.js:533: the statement of tx.getCacheQuery settles
TxCacheQuery(c) ==
    /\ Frame(c).pc = "tx_gq"
    /\ \/ SetFrame(c, txStoreAfterQuery([stmt(Frame(c)) EXCEPT
                          !.stmtOk = TRUE,
                          !.data = JArr(DbRows(dbVersion + Frame(c).txw))]))
       \/ \E e \in DbErrors : SetFrame(c, catchTx(stmt(Frame(c)), e))
    /\ UNCHANGED others

\* dbConnector.js:553: connection.commit() settles
TxCommit(c) ==
    /\ Frame(c).pc = "tx_commit"
    /\ \/ /\ dbVersion + Frame(c).txw <= MaxWrites
          /\ SetFrame(c, flushAfterCommit([Frame(c) EXCEPT !.committed = TRUE]))
          /\ dbVersion' = dbVersion + Frame(c).txw
       \/ /\ SetFrame(c, catchTx(Frame(c), CommitError))
          /\ UNCHANGED dbVersion
    /\ UNCHANGED <<cache, isRedisReady, lastEventReady, redisUp, isShuttingDown, cfgVars, pureVars>>

\* dbConnector.js:569: connection.rollback() settles
TxRollback(c) ==
    /\ Frame(c).pc = "tx_rollback"
    /\ \E ok \in BOOLEAN :
          SetFrame(c, rollbackSettles([Frame(c) EXCEPT !.rollbackFailed = ~ok], ok))
    /\ UNCHANGED others

----------------------------------------------------------------------------
(* Actions: the Redis server and the Redis client's events *)

\* what the reply to the command of operation j adds to the observations of k
Observe(k, j, r) ==
    LET o == k.cops[j]
        wrote == o.phase = "setex" /\ r.o.failed = ""
    IN  [k EXCEPT !.cops[j] = [r.o EXCEPT !.sent = IF r.o.phase = "done" THEN @ ELSE @ + 1],
                  !.cacheOk = @ \/ r.o.failed = "",
                  !.stored = IF wrote
                             THEN Append(@, [key |-> namespaceKey(o.arg),
                                             val |-> r.cache[namespaceKey(o.arg)]])
                             ELSE @]

\* the Redis server (the client, when the server is down) answers the command
\* one of the call's cache operations is waiting for
CacheReply(c) ==
    /\ \E j \in 1..Len(Frame(c).cops) :
          /\ Frame(c).cops[j].phase \notin {"wait", "done"}
          /\ LET r == Reply(Frame(c).cops[j])
             IN  /\ cache' = r.cache
                 /\ SetFrame(c, ResumeIfDone(Observe(Frame(c), j, r)))
    /\ UNCHANGED <<dbVersion, isRedisReady, lastEventReady, redisUp, isShuttingDown, cfgVars, pureVars>>

\* redis.Connector.js:159-162: client.on('ready') sets the flag
clientOnReady == TRUE

\* redis.Connector.js:150-153: client.on('error') clears the flag
clientOnError == FALSE

clientOnEndKeepsFlag == isRedisReady

\* redis.Connector.js:168-171: client.on('end') clears the flag
clientOnEnd == FALSE

\* redis.Connector.js:320-322
isRedisConnected == isRedisReady

\* redis.Connector.js:159-162, and the ready listeners of 195-200, 209
OnReady ==
    /\ redisUp
    /\ ~isRedisReady
    /\ isRedisReady' = clientOnReady
    /\ lastEventReady' = TRUE
    /\ calls' = [c \in DOMAIN calls |->
                   ResumeIfDone([calls[c] EXCEPT
                       !.cops = [j \in 1..Len(calls[c].cops) |-> WaitReady(calls[c].cops[j])]])]
    /\ UNCHANGED <<cache, dbVersion, redisUp, isShuttingDown, cfgVars, pureVars>>

\* redis.Connector.js:150-153, 168-171: an error or end event, whatever the
\* state of the connection
OnErrorOrEnd ==
    /\ \E ev \in {"error", "end"} :
          isRedisReady' = IF ev = "error" THEN clientOnError ELSE clientOnEnd
    /\ lastEventReady' = FALSE
    /\ UNCHANGED <<calls, cache, dbVersion, redisUp, isShuttingDown, cfgVars, pureVars>>

\* the Redis server goes down or comes back
ServerFlips ==
    /\ redisUp' = ~redisUp
    /\ UNCHANGED <<calls, cache, dbVersion, isRedisReady, lastEventReady, isShuttingDown, cfgVars, pureVars>>

\* another program stores a string under one of the keys that is not JSON
ForeignSet ==
    /\ redisUp
    /\ \E key \in Keys : cache' = With(cache, namespaceKey(key), Garbage)
    /\ UNCHANGED <<calls, dbVersion, isRedisReady, lastEventReady, redisUp, isShuttingDown, cfgVars, pureVars>>

\* closeConnections(), dbConnector.js:421-426: the flag is set before the
\* pool is asked to end
CloseConnections ==
    /\ isShuttingDown' = TRUE
    /\ UNCHANGED <<calls, cache, dbVersion, isRedisReady, lastEventReady, redisUp, cfgVars, pureVars>>

\* redis.Connector.js:278: a key stored with SETEX reaches its expiry (or
\* another program deletes it)
KeyExpires ==
    /\ redisUp
    /\ \E key \in DOMAIN cache : cache' = Without(cache, {key})
    /\ UNCHANGED <<calls, dbVersion, isRedisReady, lastEventReady, redisUp, isShuttingDown, cfgVars, pureVars>>

----------------------------------------------------------------------------
(* The specification *)

Init ==
    /\ calls = [c \in Calls |-> IdleFrame]
    /\ cache = << >>
    /\ dbVersion = 0
    /\ isRedisReady = FALSE
    /\ redisUp = TRUE
    /\ isShuttingDown = FALSE
    /\ REDIS_ENABLED \in BOOLEAN
    /\ REDIS_VHOST = "app"
    /\ autoKeyEnabled = FALSE
    /\ autoInvalidationEnabled \in BOOLEAN
    /\ invalidationRules = << >>
    /\ lastEventReady = FALSE
    /\ callArgs = << >>
    /\ callResult = << >>

Next ==
    \/ \E c \in Calls :
          \/ StartGetCacheQuery(c)
          \/ StartGetCacheQueryWithTimeout(c)
          \/ StartQuaryCache(c)
          \/ StartGetCacheQueryPagination(c)
          \/ StartBulkInsert(c)
          \/ StartWithTransaction(c)
          \/ StartCacheCall(c)
          \/ Finish(c)
          \/ Backoff(c)
          \/ TimeoutFires(c)
          \/ WaitTimeout(c)
          \/ GetConnection(c)
          \/ GetConnectionFails(c)
          \/ UseDatabase(c)
          \/ Query(c)
          \/ StatementFails(c)
          \/ CountQuery(c)
          \/ PageQuery(c)
          \/ ChunkQuery(c)
          \/ TxGetConnection(c)
          \/ TxUseDatabase(c)
          \/ TxBegin(c)
          \/ Callback(c)
          \/ TxQuery(c)
          \/ TxCacheQuery(c)
          \/ TxCommit(c)
          \/ TxRollback(c)
          \/ CacheReply(c)
    \/ OnReady
    \/ OnErrorOrEnd
    \/ ServerFlips
    \/ ForeignSet
    \/ KeyExpires

Spec == Init /\ [][Next]_vars

----------------------------------------------------------------------------
(* Readers and a writer side by side: slot 0 runs QuaryCache, the slots of  *)
(* Calls run getCacheQuery, with the cache enabled; of the requests to the  *)
(* pool and the MySQL server only the writer's statement fails              *)

Slots == 0..NumCalls

InitRW ==
    /\ calls = [c \in Slots |-> IdleFrame]
    /\ cache = << >>
    /\ dbVersion = 0
    /\ isRedisReady = FALSE
    /\ redisUp = TRUE
    /\ isShuttingDown = FALSE
    /\ REDIS_ENABLED = TRUE
    /\ REDIS_VHOST = "app"
    /\ autoKeyEnabled = FALSE
    /\ autoInvalidationEnabled \in BOOLEAN
    /\ invalidationRules = << >>
    /\ lastEventReady = FALSE
    /\ callArgs = << >>
    /\ callResult = << >>

NextRW ==
    \/ StartQuaryCache(0)
    \/ \E c \in Calls : StartGetCacheQuery(c)
    \/ StatementFails(0)
    \/ \E c \in Slots :
          \/ Finish(c)
          \/ Backoff(c)
          \/ WaitTimeout(c)
          \/ GetConnection(c)
          \/ UseDatabase(c)
          \/ Query(c)
          \/ CacheReply(c)
    \/ OnReady
    \/ OnErrorOrEnd
    \/ ServerFlips
    \/ KeyExpires

SpecRW == InitRW /\ [][NextRW]_vars

----------------------------------------------------------------------------
(* Properties.  They read the observation fields of the frames.             *)

Range(seq) == {seq[j] : j \in 1..Len(seq)}
Count(seq, x) == Cardinality({j \in 1..Len(seq) : seq[j] = x})

IsTx(k) == k.op = "withTransaction"

\* the awaits inside the transaction callback
CallbackPcs == {"tx_cb", "tx_query", "tx_gq", "tx_get", "tx_add"}

\* a cached value that is a non-empty array
IsCacheHit(x) == x.t = "array" /\ Len(x.v) > 0

\* C1: a transaction that ends in rollback has called delPrefixKeyItem for
\* none of the patterns its tx.query calls buffered: as soon as rollback has
\* been invoked, and ever after, the call has issued no invalidation.
RollbackIssuesNoInvalidation ==
    \A c \in DOMAIN calls :
        IsTx(Frame(c)) /\ Frame(c).rollbacks > 0 => Frame(c).dels = <<>>

\* the callback threw after tx.query calls that buffered patterns, and the
\* transaction was rolled back
RolledBackWithBufferedPatterns ==
    \E c \in DOMAIN calls :
        /\ IsTx(Frame(c))
        /\ Frame(c).pc = "done"
        /\ Frame(c).failedAt = "tx_cb"
        /\ Frame(c).rollbacks = 1
        /\ Len(Frame(c).buffer) > 0
        /\ Frame(c).res = ThrowOf(CallbackError)

\* C2: a successful transaction commits, then flushes the buffer, then
\* returns: no delPrefixKeyItem is issued before the commit has completed
\* (none by tx.query), the flush is pending only after the commit, and the
\* call returns the callback's result only when the flush is over.
CommitThenFlushThenReturn ==
    \A c \in DOMAIN calls :
        LET k == Frame(c)
        IN  IsTx(k) =>
              /\ k.dels # <<>> => k.committed
              /\ k.pc \in CallbackPcs \cup {"tx_conn", "tx_use", "tx_begin", "tx_commit"} =>
                    /\ k.dels = <<>>
                    /\ \A j \in 1..Len(k.cops) : k.cops[j].kind # "delp"
              /\ k.pc = "tx_flush" => k.committed /\ k.res.kind = "none"
              /\ k.res.kind = "return" =>
                    k.pc = "done" /\ k.committed /\ k.res.v = CallbackResult
              /\ k.committed => k.commits = 1 /\ k.rollbacks = 0

\* a committed transaction has flushed patterns and returned
CommittedFlushedReturned ==
    \E c \in DOMAIN calls :
        /\ IsTx(Frame(c))
        /\ Frame(c).pc = "done"
        /\ Frame(c).committed
        /\ Frame(c).dels # <<>>
        /\ Frame(c).res = ReturnOf(CallbackResult)

\* C3: on commit every distinct pattern of the buffer is passed to
\* delPrefixKeyItem exactly once, however often tx.query buffered it, and
\* nothing else is passed.
EachBufferedPatternFlushedOnce ==
    \A c \in DOMAIN calls :
        LET k == Frame(c)
        IN  IsTx(k) /\ k.committed =>
              /\ \A p \in Range(k.buffer) : Count(k.dels, p) = 1
              /\ Range(k.dels) \subseteq Range(k.buffer)
              /\ k.pc = "tx_flush" =>
                    /\ Len(k.cops) = Len(k.dels)
                    /\ \A j \in 1..Len(k.cops) :
                          k.cops[j].kind = "delp" /\ k.cops[j].arg = <<k.dels[j]>>

\* a committed transaction whose buffer held one pattern twice
DuplicatePatternFlushed ==
    \E c \in DOMAIN calls :
        /\ IsTx(Frame(c))
        /\ Frame(c).committed
        /\ Frame(c).pc = "done"
        /\ \E p \in Range(Frame(c).buffer) :
              Count(Frame(c).buffer, p) = 2 /\ Count(Frame(c).dels, p) = 1

\* C4: when the transaction's callback fails, rollback is invoked exactly
\* once, commit is never invoked, and the call rejects with the error the
\* callback failed with, also when the rollback itself fails.
CallbackFailureRollsBackOnce ==
    \A c \in DOMAIN calls :
        LET k == Frame(c)
        IN  IsTx(k) /\ k.failedAt \in CallbackPcs =>
              /\ k.rollbacks = 1
              /\ k.commits = 0
              /\ ~k.committed
              /\ k.pc \in {"tx_rollback", "done"}
              /\ k.pc = "tx_rollback" => k.res.kind = "none"
              /\ k.pc = "done" =>
                    /\ k.res = ThrowOf(k.cbErr)
                    /\ k.failedAt = "tx_cb" => k.res.e = CallbackError
                    /\ k.failedAt \in {"tx_query", "tx_gq"} => k.res.e \in DbErrors

\* the callback threw, the rollback failed too, and the call rejected with
\* the callback's error
CallbackErrorSurvivesFailedRollback ==
    \E c \in DOMAIN calls :
        /\ IsTx(Frame(c))
        /\ Frame(c).pc = "done"
        /\ Frame(c).failedAt = "tx_cb"
        /\ Frame(c).rollbackFailed
        /\ Frame(c).rollbacks = 1
        /\ Frame(c).res = ThrowOf(CallbackError)

\* C31: a withTransaction call that acquired a connection has, by the time
\* the connection is released, either committed successfully or invoked
\* rollback once, never both and never neither; in particular no rollback
\* follows a successful commit when the flush finds the cache store down.  A
\* failed commit is followed by one rollback, no invalidation is issued, and
\* the call rejects with the commit error.
CommitOrRollbackBeforeRelease ==
    \A c \in DOMAIN calls :
        LET k == Frame(c)
        IN  IsTx(k) =>
              /\ ~(k.committed /\ k.rollbacks > 0)
              /\ k.rollbacks <= 1
              /\ k.acq = 0 => ~k.committed /\ k.rollbacks = 0
              /\ k.rel > 0 => k.acq = 1 /\ (k.committed \/ k.rollbacks = 1)
              /\ k.pc = "done" /\ k.acq > 0 => k.committed \/ k.rollbacks = 1
              /\ k.pc \in {"tx_flush", "tx_rollback"} => k.rel = 0
              /\ k.failedAt = "tx_commit" =>
                    /\ k.commits = 1 /\ ~k.committed
                    /\ k.rollbacks = 1
                    /\ k.dels = <<>>
                    /\ \A j \in 1..Len(k.cops) : k.cops[j].kind # "delp"
                    /\ k.pc \in {"tx_rollback", "done"}
                    /\ k.pc = "done" => k.res = ThrowOf(CommitError)

\* a transaction committed, none of the flush's cache commands succeeded,
\* and the call returned without a rollback
CommittedWhileCacheDown ==
    \E c \in DOMAIN calls :
        /\ IsTx(Frame(c))
        /\ Frame(c).pc = "done"
        /\ Frame(c).committed
        /\ Frame(c).dels # <<>>
        /\ ~Frame(c).cacheOk
        /\ Frame(c).rollbacks = 0
        /\ Frame(c).rel = 1
        /\ Frame(c).res = ReturnOf(CallbackResult)

\* the cache operations in flight
Ops == UNION {{<<c, j>> : j \in 1..Len(calls[c].cops)} : c \in DOMAIN calls}
Op(cj) == calls[cj[1]].cops[cj[2]]

\* C32: a waitForConnection call settles at most once, and once when its wait
\* is over (by the ready listener or by the timer, never both); its ready
\* listener and its timer are registered exactly while the wait is pending,
\* so the registered waiter listeners are as many as the pending waits; a
\* call made while the client is ready registers nothing.
WaitSettlesOnceAndUnregisters ==
    /\ \A cj \in Ops :
          LET o == Op(cj)
          IN  /\ o.settles <= 1
              /\ o.listener <=> o.phase = "wait"
              /\ o.timer <=> o.phase = "wait"
              /\ o.phase = "wait" => o.waited /\ o.settles = 0
              /\ o.waited /\ o.phase # "wait" => o.settles = 1
              /\ ~o.waited => o.settles = 0
              /\ o.failed = "timeout" => o.waited /\ o.phase = "done"
    /\ Cardinality({cj \in Ops : Op(cj).listener})
          = Cardinality({cj \in Ops : Op(cj).phase = "wait"})

\* of two delPrefixKeyItem calls of one flush that waited, one has timed out
\* and the other is still waiting
OneWaitTimedOutOtherPending ==
    \E c \in DOMAIN calls :
        /\ Len(calls[c].cops) >= 2
        /\ calls[c].cops[1].failed = "timeout"
        /\ calls[c].cops[1].settles = 1
        /\ calls[c].cops[2].phase = "wait"
        /\ calls[c].cops[2].listener

\* C33: a cache operation started while the client is ready has invoked its
\* first command at once, without a wait; one started while the client is
\* not ready invokes no command while it waits, invokes its commands only
\* after the ready listener has resolved the wait, and when the wait times
\* out it resolves to its fallback having invoked no command.
CommandsOnlyWhenReadyOrAfterReadyEvent ==
    \A cj \in Ops :
        LET o == Op(cj)
        IN  /\ ~o.waited => o.settles = 0 /\ o.sent >= FirstSent(o.kind, o.arg)
            /\ o.phase = "wait" => o.sent = 0
            /\ o.sent > 0 /\ o.waited => o.settles = 1 /\ o.failed # "timeout"
            /\ o.waited /\ o.phase # "wait" /\ o.failed # "timeout" =>
                    o.sent >= FirstSent(o.kind, o.arg)
            /\ o.failed = "timeout" =>
                    /\ o.sent = 0
                    /\ o.phase = "done"
                    /\ ~o.rejected
                    /\ o.out = Fallback(o)

\* addArrayItem was called while the client was not ready, its wait timed
\* out, and it returned the array without a SETEX
AddGaveUpWithoutCommand ==
    \E c \in DOMAIN calls :
        /\ Frame(c).op = "add"
        /\ Frame(c).pc = "done"
        /\ Frame(c).cops[1].waited
        /\ Frame(c).cops[1].failed = "timeout"
        /\ Frame(c).cops[1].sent = 0
        /\ Frame(c).res = ReturnOf(Frame(c).cops[1].val)
        /\ namespaceKey(Frame(c).cops[1].arg) \notin DOMAIN cache

EachRecordInsertedAtMostOnce ==
    \A c \in DOMAIN calls :
        Frame(c).op = "bulkInsert" =>
            \A r \in 1..Len(Frame(c).sends) : Frame(c).sends[r] <= 1

\* C35: getArrayItem never returns null, also when the key is deleted or
\* expires between its EXISTS and its GET: it returns [] or a stored value;
\* and getCacheQuery never reads null from it and never rejects with the
\* TypeError of reading the length of null.
GetArrayItemNeverNull ==
    \A c \in DOMAIN calls :
        LET k == Frame(c)
        IN  /\ k.op = "get" /\ k.pc = "done" => k.res.v # JNull
            /\ k.op = "getCacheQuery" =>
                  /\ k.cached # JNull
                  /\ k.res.kind = "throw" => k.res.e # TypeError

PoolOps == {"QuaryCache", "getCacheQuery", "getCacheQueryPagination", "bulkInsert",
            "withTransaction"}

\* C5: QuaryCache, getCacheQuery, getCacheQueryPagination, bulkInsert and
\* withTransaction never release a connection twice or one they did not
\* acquire, and when the call has completed (returned or rejected) it has
\* released as many connections as it acquired and holds none.
EveryAcquiredConnectionReleasedOnce ==
    \A c \in DOMAIN calls :
        LET k == Frame(c)
        IN  k.op \in PoolOps =>
              /\ ~k.dbl
              /\ k.rel <= k.acq
              /\ k.res.kind # "none" => k.rel = k.acq /\ k.conn # "held"

\* a call that acquired a connection on each of its attempts and rejected
AllAttemptsReleased ==
    \E c \in DOMAIN calls :
        /\ Frame(c).op = "QuaryCache"
        /\ Frame(c).pc = "done"
        /\ Frame(c).res.kind = "throw"
        /\ Frame(c).acq = Retries
        /\ Frame(c).rel = Retries

Covers(k, key) ==
    \E j \in 1..Len(k.dels) :
        GlobMatch(namespaceKey(k.dels[j] \o <<"*">>), namespaceKey(key))

\* the call is over: it has settled and awaits nothing
Over(k) == k.pc \in {"idle", "done"}

\* C34: once a QuaryCache write whose invalidation patterns cover the key
\* of the readers has returned and every getCacheQuery read has completed,
\* the key is absent from the cache or holds the rows of the backing store
\* as the write left it: no rows read before the mutation are cached.
NoStaleRowsAfterInvalidation ==
    \A c \in DOMAIN calls :
        LET k == Frame(c)
        IN  /\ k.op = "QuaryCache"
            /\ isWriteOperation(k.sql)
            /\ k.pc = "done"
            /\ k.res.kind = "return"
            /\ \A d \in DOMAIN calls : Over(Frame(d))
            => \A key \in Keys :
                  Covers(k, key) /\ namespaceKey(key) \in DOMAIN cache =>
                     cache[namespaceKey(key)] = JSONstringify(JArr(DbRows(dbVersion)))

\* C7: when no cache command of the call succeeded (the cache store was
\* unavailable for the whole call), getCacheQuery still returns the rows its
\* statement produced and QuaryCache the result of its statement; such a
\* call rejects only with an error of the pool or the MySQL server.
CacheOutageDoesNotFailCalls ==
    \A c \in DOMAIN calls :
        LET k == Frame(c)
        IN  k.op \in {"getCacheQuery", "QuaryCache"} /\ k.pc = "done" /\ ~k.cacheOk =>
              /\ k.res.kind = "throw" => k.res.e \in DbErrors \cup {ShutdownError}
              /\ k.res.kind = "return" =>
                    /\ k.stmtOk
                    /\ k.res.v = k.data
                    /\ k.data.t = IF k.op = "getCacheQuery" THEN "array" ELSE k.data.t

\* getCacheQuery returned the rows of the backing store although every cache
\* command it sent failed
RowsServedThroughCacheOutage ==
    \E c \in DOMAIN calls :
        /\ REDIS_ENABLED
        /\ Frame(c).op = "getCacheQuery"
        /\ Frame(c).pc = "done"
        /\ ~Frame(c).cacheOk
        /\ Frame(c).res.kind = "return"
        /\ Frame(c).res.v.t = "array"
        /\ Len(Frame(c).res.v.v) > 0

ApiOps == {"get", "add", "delk", "delp"}

CacheHitSkipsBackingStore ==
    \A c \in DOMAIN calls :
        LET k == Frame(c)
        IN  /\ k.op \in ReadOps /\ IsCacheHit(k.cached) =>
                  /\ k.pc = "done"
                  /\ k.aAcq = 0 /\ k.aStmts = 0 /\ k.conn = "undefined"
                  /\ ~k.abandoned => k.res = ReturnOf(k.cached)
            /\ IsTx(k) /\ IsCacheHit(k.cached) =>
                  /\ k.pc = "tx_cb"
                  /\ k.ret = k.cached
                  /\ k.aAcq = 0 /\ k.aStmts = 0 /\ k.acq = 1

\* getCacheQuery returned a cached non-empty array and never asked the pool
CacheHitReturned ==
    \E c \in DOMAIN calls :
        /\ Frame(c).op = "getCacheQuery"
        /\ Frame(c).pc = "done"
        /\ IsCacheHit(Frame(c).cached)
        /\ Frame(c).res = ReturnOf(Frame(c).cached)
        /\ Frame(c).acq = 0

\* C10: on a cache miss getCacheQuery executes the statement, stores exactly
\* the rows the statement returned under the call's final cache key, and
\* returns those rows; it stores only after the statement has succeeded.
MissStoresReturnedRows ==
    \A c \in DOMAIN calls :
        LET k == Frame(c)
        IN  k.op = "getCacheQuery" =>
              /\ k.pc = "add" =>
                    /\ k.stmtOk
                    /\ Len(k.cops) = 1
                    /\ k.cops[1].kind = "add"
                    /\ k.cops[1].arg = k.key
                    /\ k.cops[1].val = k.data
              /\ Len(k.stored) <= 1
              /\ \A j \in 1..Len(k.stored) :
                    /\ k.stmtOk
                    /\ k.stored[j].key = namespaceKey(k.key)
                    /\ k.stored[j].val = JSONstringify(k.data)
              /\ k.pc = "done" /\ k.res.kind = "return" /\ ~LengthPositive(k.cached) =>
                    k.stmtOk /\ k.aStmts >= 1 /\ k.res.v = k.data /\ k.data.t = "array"

\* getCacheQuery missed, read rows from the backing store, stored them under
\* its key and returned them
MissStoredAndReturned ==
    \E c \in DOMAIN calls :
        /\ Frame(c).op = "getCacheQuery"
        /\ Frame(c).pc = "done"
        /\ Len(Frame(c).stored) = 1
        /\ Frame(c).res = ReturnOf(Frame(c).data)
        /\ Len(Frame(c).data.v) > 0
        /\ namespaceKey(Frame(c).key) \in DOMAIN cache
        /\ cache[namespaceKey(Frame(c).key)] = JSONstringify(Frame(c).data)

----------------------------------------------------------------------------
(* executeWithRetry by itself: QuaryCache and getCacheQueryWithTimeout with *)
(* the cache disabled, the pool and the MySQL server failing with any error *)

InitRetry ==
    /\ calls = [c \in Calls |-> IdleFrame]
    /\ cache = << >>
    /\ dbVersion = 0
    /\ isRedisReady = FALSE
    /\ redisUp = TRUE
    /\ isShuttingDown = FALSE
    /\ REDIS_ENABLED = FALSE
    /\ REDIS_VHOST = "app"
    /\ autoKeyEnabled = FALSE
    /\ autoInvalidationEnabled = FALSE
    /\ invalidationRules = << >>
    /\ lastEventReady = FALSE
    /\ callArgs = << >>
    /\ callResult = << >>

NextRetry ==
    \E c \in Calls :
        \/ StartQuaryCache(c)
        \/ StartGetCacheQueryWithTimeout(c)
        \/ Finish(c)
        \/ Backoff(c)
        \/ TimeoutFires(c)
        \/ GetConnection(c)
        \/ GetConnectionFailsAny(c)
        \/ UseDatabase(c)
        \/ Query(c)
        \/ StatementFailsAny(c)

SpecRetry == InitRetry /\ [][NextRetry]_vars

RetryOps == {"QuaryCache", "getCacheQuery", "getCacheQueryPagination",
             "getCacheQueryWithTimeout", "bulkInsert"}

\* C11: executeWithRetry goes on to a backoff and a further attempt only
\* after an error whose code is ECONNREFUSED, ETIMEDOUT, ENOTFOUND,
\* PROTOCOL_CONNECTION_LOST or ER_CON_COUNT_ERROR (and, before the last
\* attempt, after every such error); any other error ends the call at once:
\* the caller gets that very error, and no backoff wait follows it.
RetryOnlyTransientErrors ==
    \A c \in DOMAIN calls :
        LET k == Frame(c)
            listed == k.lastErr.code \in {"ECONNREFUSED", "ETIMEDOUT", "ENOTFOUND",
                                           "PROTOCOL_CONNECTION_LOST", "ER_CON_COUNT_ERROR"}
        IN  k.op \in RetryOps =>
              /\ k.pc = "backoff" => listed
              /\ k.pc = "done" /\ k.lastErr # NoError /\ listed => k.i = 2
              /\ k.pc = "done" /\ k.lastErr # NoError /\ ~listed =>
                    /\ k.res = ThrowOf(k.lastErr)
                    /\ Len(k.waits) = k.i

\* a statement failed with ER_PARSE_ERROR on the first attempt and the call
\* rejected with it, the connection released, no attempt after it
ParseErrorNotRetried ==
    \E c \in DOMAIN calls :
        /\ Frame(c).op = "QuaryCache"
        /\ Frame(c).pc = "done"
        /\ Frame(c).i = 0
        /\ Frame(c).acq = 1
        /\ Frame(c).waits = <<>>
        /\ Frame(c).res.kind = "throw"
        /\ Frame(c).res.e.code = "ER_PARSE_ERROR"

\* C12: executeWithRetry runs its operation at most 3 times per call: the
\* attempt index never passes 2, no backoff follows the third attempt, and
\* when the third attempt fails its error is the one the caller gets.
AtMostThreeAttempts ==
    \A c \in DOMAIN calls :
        LET k == Frame(c)
        IN  k.op \in RetryOps =>
              /\ k.i <= 2
              /\ k.acq <= 3
              /\ k.pc = "backoff" => k.i < 2
              /\ k.pc = "done" /\ k.i = 2 /\ k.lastErr # NoError /\ ~k.abandoned =>
                    k.res = ThrowOf(k.lastErr)

\* three attempts failed with a transient error; the caller got the third
ThirdTransientErrorPropagates ==
    \E c \in DOMAIN calls :
        /\ Frame(c).op = "QuaryCache"
        /\ Frame(c).pc = "done"
        /\ Frame(c).i = 2
        /\ Frame(c).acq = 3
        /\ Frame(c).lastErr.code = "ETIMEDOUT"
        /\ Frame(c).res = ThrowOf(Frame(c).lastErr)

----------------------------------------------------------------------------
(* Shutdown: every operation of dbConnector.js, the cache enabled and the   *)
(* Redis server up, and closeConnections called at any moment               *)

InitShutdown ==
    /\ calls = [c \in Calls |-> IdleFrame]
    /\ cache = << >>
    /\ dbVersion = 0
    /\ isRedisReady = FALSE
    /\ redisUp = TRUE
    /\ isShuttingDown = FALSE
    /\ REDIS_ENABLED = TRUE
    /\ REDIS_VHOST = "app"
    /\ autoKeyEnabled = FALSE
    /\ autoInvalidationEnabled = FALSE
    /\ invalidationRules = << >>
    /\ lastEventReady = FALSE
    /\ callArgs = << >>
    /\ callResult = << >>

NextShutdown ==
    \/ \E c \in Calls :
          \/ StartGetCacheQuery(c)
          \/ StartGetCacheQueryWithTimeout(c)
          \/ StartQuaryCache(c)
          \/ StartGetCacheQueryPagination(c)
          \/ StartBulkInsert(c)
          \/ StartWithTransaction(c)
          \/ Finish(c)
          \/ Backoff(c)
          \/ TimeoutFires(c)
          \/ WaitTimeout(c)
          \/ GetConnection(c)
          \/ GetConnectionFails(c)
          \/ UseDatabase(c)
          \/ Query(c)
          \/ StatementFails(c)
          \/ CountQuery(c)
          \/ PageQuery(c)
          \/ ChunkQuery(c)
          \/ TxGetConnection(c)
          \/ TxUseDatabase(c)
          \/ TxBegin(c)
          \/ Callback(c)
          \/ TxQuery(c)
          \/ TxCacheQuery(c)
          \/ TxCommit(c)
          \/ TxRollback(c)
          \/ CacheReply(c)
    \/ OnReady
    \/ CloseConnections

SpecShutdown == InitShutdown /\ [][NextShutdown]_vars

DbOps == RetryOps \cup {"withTransaction"}

\* the call touched neither store and was not retried
Untouched(k) ==
    /\ k.pc = "done"
    /\ k.i = 0 /\ k.waits = <<>>
    /\ k.acq = 0 /\ k.aStmts = 0
    /\ k.cops = <<>> /\ ~k.cacheOk /\ k.dels = <<>> /\ k.stored = <<>>

\* C13 as claimed: once closeConnections has set the shutdown flag, every
\* call of QuaryCache, getCacheQuery, getCacheQueryPagination,
\* getCacheQueryWithTimeout, bulkInsert or withTransaction issued afterwards
\* fails with the 'shutting down' error, without retry or backoff and
\* without touching the cache store or the backing store.
EveryLateCallRejected ==
    \A c \in DOMAIN calls :
        LET k == Frame(c)
        IN  k.op \in DbOps /\ k.late =>
              /\ k.res.kind = "throw"
              /\ k.res.e \in {ShutdownError, ShutdownTxError}
              /\ Untouched(k)

\* C13, amended: the same for every call that reaches the shutdown check;
\* a bulkInsert without records returns {insertedRows: 0, chunks: 0} before
\* it, also touching neither store.
LateCallRejectedOrEmptyBulk ==
    \A c \in DOMAIN calls :
        LET k == Frame(c)
        IN  k.op \in DbOps /\ k.late =>
              /\ Untouched(k)
              /\ IF k.op = "bulkInsert" /\ k.records = 0
                 THEN k.res = ReturnOf(BulkResult(0, 0))
                 ELSE k.res = ThrowOf(IF k.op = "withTransaction" THEN ShutdownTxError
                                      ELSE ShutdownError)

\* getCacheQuery was called after closeConnections, with its key in the
\* cache, and was rejected
LateReadRejectedDespiteCachedValue ==
    \E c \in DOMAIN calls :
        /\ Frame(c).op = "getCacheQuery"
        /\ Frame(c).late
        /\ Frame(c).res = ThrowOf(ShutdownError)
        /\ namespaceKey(Frame(c).key) \in DOMAIN cache

\* C14: when the timer of getCacheQueryWithTimeout fires before the attempt
\* completes, the call rejects with 'Query timeout exceeded' and is not
\* retried, whatever the attempt does afterwards; the attempt is not
\* cancelled: it keeps its connection while it runs and releases it when it
\* completes.
TimeoutAbandonsWithoutCancelling ==
    \A c \in DOMAIN calls :
        LET k == Frame(c)
        IN  k.op = "getCacheQueryWithTimeout" /\ k.abandoned =>
              /\ k.res = ThrowOf(TimeoutError)
              /\ k.pc # "backoff"
              /\ Len(k.waits) = k.i
              /\ k.pc = "done" => k.rel = k.acq /\ k.conn # "held"
              /\ k.pc # "done" /\ k.aAcq = 1 => k.conn = "held" /\ k.rel = k.acq - 1

\* the timer fired, the call rejected, and the statement succeeded later:
\* the attempt ran to its end and released its connection
AbandonedAttemptCompleted ==
    \E c \in DOMAIN calls :
        /\ Frame(c).op = "getCacheQueryWithTimeout"
        /\ Frame(c).abandoned
        /\ Frame(c).pc = "done"
        /\ Frame(c).stmtOk
        /\ Frame(c).rel = 1
        /\ Frame(c).res = ThrowOf(TimeoutError)

----------------------------------------------------------------------------
(* getCacheQueryPagination with every kind of page and page size, beside    *)
(* other writers of its cache key                                            *)

SqlSelectUsersSemi == <<"SELECT", "*", "FROM", "users", ";">>

PageValues ==
    { JUndef, JNull, JNaN, JNum(-1), JStr(<<"abc">>), JNum(0), JNum(1), JStr(<<"1">>) }

PageSizes == {-1, 0, 1, 2}

\* what another caller may have stored under the key: rows, null, a string
ForeignValues == { JArr(<<7>>), JNull, JStr(<<"x">>) }

InitPage ==
    /\ calls = [c \in Calls |-> IdleFrame]
    /\ cache = << >>
    /\ dbVersion \in 0..MaxWrites
    /\ isRedisReady = FALSE
    /\ redisUp = TRUE
    /\ isShuttingDown = FALSE
    /\ REDIS_ENABLED \in BOOLEAN
    /\ REDIS_VHOST = "app"
    /\ autoKeyEnabled = FALSE
    /\ autoInvalidationEnabled = FALSE
    /\ invalidationRules = << >>
    /\ lastEventReady = FALSE
    /\ callArgs = << >>
    /\ callResult = << >>

\* getCacheQueryPagination(sql, parameters, cacheName, page, pageSize), dbConnector.js:254-306
StartGetCacheQueryPaginationAny(c) ==
    /\ Frame(c).pc = "idle"
    /\ \E key \in Keys, sql \in {SqlSelectUsers, SqlSelectUsersSemi},
          page \in PageValues, pageSize \in PageSizes :
          SetFrame(c, attemptStart([NewCall("getCacheQueryPagination") EXCEPT
                          !.sql = sql, !.key = key, !.page = page, !.pageSize = pageSize]))
    /\ UNCHANGED others

\* another caller stores a JSON text under one of the keys
ForeignSetJson ==
    /\ redisUp
    /\ \E key \in Keys, v \in ForeignValues :
          cache' = With(cache, namespaceKey(key), JSONstringify(v))
    /\ UNCHANGED <<calls, dbVersion, isRedisReady, lastEventReady, redisUp, isShuttingDown, cfgVars, pureVars>>

NextPage ==
    \/ \E c \in Calls :
          \/ StartGetCacheQueryPaginationAny(c)
          \/ Finish(c)
          \/ Backoff(c)
          \/ WaitTimeout(c)
          \/ GetConnection(c)
          \/ StatementFails(c)
          \/ CountQuery(c)
          \/ PageQuery(c)
          \/ PageQueryRejected(c)
          \/ CacheReply(c)
    \/ OnReady
    \/ ForeignSetJson

SpecPage == InitPage /\ [][NextPage]_vars

IsPage(k) == k.op = "getCacheQueryPagination"

\* C23: getCacheQueryPagination called with a pageSize <= 0 rejects with the
\* 'Page size must be greater than 0' error at once: no retry, no cache
\* operation, no connection and no statement.
NonPositivePageSizeRejected ==
    \A c \in DOMAIN calls :
        LET k == Frame(c)
        IN  IsPage(k) /\ k.pageSize <= 0 =>
              /\ k.pc = "done"
              /\ k.res = ThrowOf(PageSizeError)
              /\ k.i = 0 /\ k.waits = <<>>
              /\ k.acq = 0 /\ k.aStmts = 0
              /\ k.cops = <<>> /\ k.cached = JUndef

\* a call with a negative page size was rejected although a page object is
\* cached under its key
NegativePageSizeRejectedBesideCachedPage ==
    \E c \in DOMAIN calls :
        /\ IsPage(Frame(c))
        /\ Frame(c).pageSize < 0
        /\ Frame(c).res = ThrowOf(PageSizeError)
        /\ REDIS_ENABLED
        /\ namespaceKey(Frame(c).key) \in DOMAIN cache
        /\ cache[namespaceKey(Frame(c).key)].v.t = "object"

\* page is a valid non-negative integer: a number or a numeric string
ValidPage(page) ==
    \/ page.t = "number" /\ page.v >= 0
    \/ page.t = "string" /\ page.v \in {<<"0">>, <<"1">>}

\* C24: on a cache miss the paginated statement ends in LIMIT offset,
\* pageSize, where offset is 0 whenever page is not a valid non-negative
\* integer (undefined, null, NaN, negative, non-numeric string) and
\* p * pageSize for a valid page p, a number or a numeric string.
InvalidPageTreatedAsZero ==
    \A c \in DOMAIN calls :
        LET k == Frame(c)
            p == IF ValidPage(k.page) THEN ToNumber(k.page).v ELSE 0
            n == Len(k.paginatedSql)
        IN  IsPage(k) /\ n > 0 =>
              SubSeq(k.paginatedSql, n - 3, n)
                = <<"LIMIT", ToString(p * k.pageSize), ",", ToString(k.pageSize)>>

\* C25: on a cache miss the paginated statement sent to the backing store
\* contains no semicolon, before or after LIMIT.
PaginatedStatementHasNoSemicolon ==
    \A c \in DOMAIN calls :
        LET k == Frame(c)
        IN  IsPage(k) => \A j \in 1..Len(k.paginatedSql) : k.paginatedSql[j] # ";"

\* the page object built from content v for the call k
PageOf(k, v) ==
    JObj(Len(DbRows(v)), CeilDiv(Len(DbRows(v)), k.pageSize),
         Limit(DbRows(v), k.offset.v, k.pageSize))

----------------------------------------------------------------------------
(* The cache disabled *)

\* C28: with REDIS_ENABLED false no operation of dbConnector.js calls
\* getArrayItem, addArrayItem or delPrefixKeyItem: a call awaits no cache
\* operation, has read nothing from the cache, stored nothing and invalidated
\* nothing, a transaction buffers no pattern, and a read that returns has run
\* its statement on the backing store.
DisabledCacheIsNeverCalled ==
    ~REDIS_ENABLED =>
        \A c \in DOMAIN calls :
            LET k == Frame(c)
            IN  k.op \in DbOps =>
                  /\ k.cops = <<>>
                  /\ k.cached = JUndef
                  /\ k.stored = <<>>
                  /\ k.dels = <<>>
                  /\ k.buffer = <<>>
                  /\ ~k.cacheOk
                  /\ k.pc = "done" /\ k.res.kind = "return"
                       /\ k.op \in ReadOps \cup {"getCacheQueryPagination"} =>
                          /\ k.aStmts >= 1
                          /\ k.res.v = k.data

\* the cache is disabled, auto invalidation is enabled, and a write that
\* names a pattern has returned
WriteWithPatternReturnedCacheDisabled ==
    \E c \in DOMAIN calls :
        LET k == Frame(c)
        IN  /\ ~REDIS_ENABLED
            /\ autoInvalidationEnabled
            /\ k.op = "QuaryCache"
            /\ k.sql = SqlInsertUsers
            /\ Truthy(k.reset)
            /\ k.pc = "done"
            /\ k.res.kind = "return"
            /\ k.stmtOk

----------------------------------------------------------------------------
(* Reads with and without a cache name, alone and inside a transaction,     *)
(* with auto key generation on or off                                       *)

InitKey ==
    /\ calls = [c \in Calls |-> IdleFrame]
    /\ cache = << >>
    /\ dbVersion = 0
    /\ isRedisReady = FALSE
    /\ redisUp = TRUE
    /\ isShuttingDown = FALSE
    /\ REDIS_ENABLED = TRUE
    /\ REDIS_VHOST = "app"
    /\ autoKeyEnabled \in BOOLEAN
    /\ autoInvalidationEnabled = FALSE
    /\ invalidationRules = << >>
    /\ lastEventReady = FALSE
    /\ callArgs = << >>
    /\ callResult = << >>

NextKey ==
    \/ \E c \in Calls :
          \/ StartGetCacheQuery(c)
          \/ StartGetCacheQueryUnnamed(c)
          \/ StartWithTransaction(c)
          \/ Finish(c)
          \/ WaitTimeout(c)
          \/ GetConnection(c)
          \/ UseDatabase(c)
          \/ Query(c)
          \/ TxGetConnection(c)
          \/ TxUseDatabase(c)
          \/ TxBegin(c)
          \/ Callback(c)
          \/ CallbackUnnamed(c)
          \/ CallbackRethrows(c)
          \/ TxQuery(c)
          \/ TxCacheQuery(c)
          \/ TxCommit(c)
          \/ TxRollback(c)
          \/ CacheReply(c)
    \/ OnReady

SpecKey == InitKey /\ [][NextKey]_vars

\* every cache operation the call awaits is on that key
KeyUsed(k, key) ==
    /\ k.key = key
    /\ \A j \in 1..Len(k.cops) : k.cops[j].kind \in {"get", "add"} => k.cops[j].arg = key

\* C27: getCacheQuery and tx.getCacheQuery use a supplied cache name as it
\* is, whether or not auto key generation is enabled; without one they use
\* the key generateCacheKey derives if auto key generation is enabled, and
\* otherwise fail with 'cacheName is required' before any cache operation,
\* connection or statement.
SuppliedKeyElseDerivedElseRequired ==
    \A c \in DOMAIN calls :
        LET k == Frame(c)
            derived == generateCacheKey(k.sql, k.parameters, [strategy |-> ""])
        IN  (k.op = "getCacheQuery" \/ (IsTx(k) /\ k.cacheName # JUndef)) =>
              /\ Truthy(k.cacheName) => KeyUsed(k, k.cacheName.v)
              /\ ~Truthy(k.cacheName) /\ autoKeyEnabled => KeyUsed(k, derived.v)
              /\ k.op = "getCacheQuery" =>
                    \A j \in 1..Len(k.stored) : k.stored[j].key = namespaceKey(k.key)
              /\ ~Truthy(k.cacheName) /\ ~autoKeyEnabled =>
                    /\ k.cops = <<>> /\ k.cached = JUndef
                    /\ k.aAcq = 0 /\ k.aStmts = 0
                    /\ IF IsTx(k)
                       THEN k.ret = Rejected(CacheNameTxError)
                       ELSE /\ k.pc = "done"
                            /\ k.res = ThrowOf(CacheNameError)
                            /\ k.acq = 0 /\ k.stored = <<>>

\* auto key generation is enabled and a derived key is in the cache, yet the
\* read with a supplied name has stored its rows under that name
SuppliedNameStoredBesideDerivedKey ==
    \E c \in DOMAIN calls :
        LET k == Frame(c)
        IN  /\ autoKeyEnabled
            /\ k.op = "getCacheQuery"
            /\ k.cacheName = JStr(KeyUsersList)
            /\ k.pc = "done"
            /\ Len(k.stored) = 1
            /\ k.stored[1].key = namespaceKey(KeyUsersList)
            /\ namespaceKey(<<"users", ":", "all">>) \in DOMAIN cache

----------------------------------------------------------------------------
(* delPrefixKeyItem on a keyspace of several scan pages                     *)

PrefixUsers == <<"users", ":">>
PrefixOrders == <<"orders", ":">>

\* the keyspace with the users keys of slots 1..users and the orders keys of
\* the slots after them, up to slot last
Keyspace(users, last) ==
    [key \in {namespaceKey(PrefixUsers \o <<ToString(j)>>) : j \in 1..users}
             \cup {namespaceKey(PrefixOrders \o <<ToString(j)>>) : j \in (users + 1)..last}
       |-> JSONstringify(JArr(<<>>))]

Keyspaces ==
    { Keyspace(0, 0), Keyspace(1, 1), Keyspace(DEL_BATCH_SIZE, DEL_BATCH_SIZE),
      Keyspace(DEL_BATCH_SIZE + 1, DEL_BATCH_SIZE + 1), Keyspace(MaxKeys, MaxKeys),
      Keyspace(DEL_BATCH_SIZE, MaxKeys), Keyspace(0, MaxKeys) }

InitScan ==
    /\ calls = [c \in Calls |-> IdleFrame]
    /\ dbVersion = 0
    /\ isRedisReady = FALSE
    /\ redisUp = TRUE
    /\ isShuttingDown = FALSE
    /\ REDIS_ENABLED = TRUE
    /\ REDIS_VHOST = "app"
    /\ autoKeyEnabled = FALSE
    /\ autoInvalidationEnabled = FALSE
    /\ invalidationRules = << >>
    /\ lastEventReady = FALSE
    /\ callArgs = << >>
    /\ callResult = << >>
    /\ cache \in Keyspaces

\* delPrefixKeyItem(keys), redis.Connector.js:301-315
StartDelPrefixKeyItem(c) ==
    /\ Frame(c).pc = "idle"
    /\ \E keys \in { JStr(PrefixUsers), JArr(<<>>), JArr(<<PrefixUsers, PrefixOrders>>),
                     JArr(<<PrefixOrders, PatUsersList>>) } :
          LET o == delPrefixKeyItem(keys)
          IN  SetFrame(c, ResumeIfDone([NewCall(o.kind) EXCEPT !.pc = "api", !.cops = <<o>>]))
    /\ UNCHANGED others

NextScan ==
    \/ \E c \in Calls :
          \/ StartDelPrefixKeyItem(c)
          \/ Finish(c)
          \/ WaitTimeout(c)
          \/ CacheReply(c)
    \/ OnReady
    \/ ServerFlips
    \/ ForeignSet

SpecScan == InitScan /\ [][NextScan]_vars

RECURSIVE KeysOf(_)
KeysOf(commands) ==
    IF commands = <<>> THEN <<>> ELSE Head(commands).keys \o KeysOf(Tail(commands))

Commands(o, cmd, p) == SelectSeq(o.log, LAMBDA e : e.cmd = cmd /\ e.p = p)

\* the operation has gone through its prefix number p
PrefixDone(o, p) == p < o.n \/ (o.phase = "done" /\ o.failed = "")

----------------------------------------------------------------------------
(* Two withTransaction calls in flight at a time *)

TxCalls == 1..(NumCalls + 1)

InitTwoTx ==
    /\ calls = [c \in TxCalls |-> IdleFrame]
    /\ cache = << >>
    /\ dbVersion = 0
    /\ isRedisReady = TRUE
    /\ redisUp = TRUE
    /\ isShuttingDown = FALSE
    /\ REDIS_ENABLED = TRUE
    /\ REDIS_VHOST = "app"
    /\ autoKeyEnabled = FALSE
    /\ autoInvalidationEnabled = TRUE
    /\ invalidationRules = << >>
    /\ lastEventReady = TRUE
    /\ callArgs = << >>
    /\ callResult = << >>

\* dbConnector.js:550: a callback of tx.query calls only: it writes to users or
\* to orders, returns or throws
CallbackWrites(c) ==
    /\ Frame(c).pc = "tx_cb"
    /\ LET k == [Frame(c) EXCEPT !.aAcq = 0, !.aStmts = 0, !.cacheName = JUndef,
                                 !.cached = JUndef, !.data = JUndef, !.ret = JUndef]
       IN  \/ /\ k.nops < MaxTxOps
              /\ \E sql \in {SqlInsertUsers, SqlUpdateOrders} :
                    SetFrame(c, [k EXCEPT !.pc = "tx_query", !.nops = @ + 1,
                                          !.sql = sql, !.reset = JNull])
           \/ SetFrame(c, [k EXCEPT !.pc = "tx_commit", !.commits = @ + 1])
           \/ SetFrame(c, catchTx(k, CallbackError))
    /\ UNCHANGED others

NextTwoTx ==
    \E c \in TxCalls :
        \/ StartWithTransaction(c)
        \/ Finish(c)
        \/ TxGetConnection(c)
        \/ TxUseDatabase(c)
        \/ TxBegin(c)
        \/ CallbackWrites(c)
        \/ TxQuery(c)
        \/ TxCommit(c)
        \/ TxRollback(c)
        \/ CacheReply(c)

SpecTwoTx == InitTwoTx /\ [][NextTwoTx]_vars

\* the patterns of the delPrefixKeyItem calls the transaction is awaiting
Flushing(k) == {k.cops[j].arg[1] : j \in {i \in 1..Len(k.cops) : k.cops[i].kind = "delp"}}

\* C30: of two withTransaction calls in flight together, each one flushes
\* after its commit exactly the patterns its own tx.query calls buffered,
\* flushes nothing without a commit, and never flushes a pattern that only a
\* transaction that rolled back has buffered.
BufferIsPerTransaction ==
    \A c \in DOMAIN calls :
        LET k == Frame(c)
        IN  IsTx(k) =>
              /\ Range(k.dels) \subseteq Range(k.buffer)
              /\ Flushing(k) \subseteq Range(k.buffer)
              /\ k.committed => Range(k.dels) = Range(k.buffer)
              /\ ~k.committed => k.dels = <<>> /\ Flushing(k) = {}
              /\ \A d \in DOMAIN calls \ {c} :
                    IsTx(Frame(d)) /\ Frame(d).rollbacks > 0 =>
                       \A pattern \in Range(Frame(d).buffer) \ Range(k.buffer) :
                          pattern \notin Range(k.dels) \cup Flushing(k)

\* one transaction is flushing its patterns after its commit while the
\* other, which has buffered a pattern the first has not, is rolling back
FlushBesideRollbackOfOtherPatterns ==
    \E c, d \in DOMAIN calls :
        /\ c # d
        /\ IsTx(Frame(c)) /\ IsTx(Frame(d))
        /\ Frame(c).pc = "tx_flush"
        /\ Frame(c).dels # <<>>
        /\ Frame(d).pc = "tx_rollback"
        /\ Range(Frame(d).buffer) \ Range(Frame(c).buffer) # {}

----------------------------------------------------------------------------
(* A getCacheQuery call after another one has stored its rows, the cache    *)
(* store answering every command, no key expiring                           *)

InitHit ==
    /\ calls = [c \in Slots |-> IdleFrame]
    /\ cache = << >>
    /\ dbVersion \in 0..MaxWrites
    /\ isRedisReady = FALSE
    /\ redisUp = TRUE
    /\ isShuttingDown = FALSE
    /\ REDIS_ENABLED = TRUE
    /\ REDIS_VHOST \in {"", "app"}
    /\ autoKeyEnabled = FALSE
    /\ autoInvalidationEnabled = FALSE
    /\ invalidationRules = << >>
    /\ lastEventReady = FALSE
    /\ callArgs = << >>
    /\ callResult = << >>

\* the first call has stored its rows; nothing has touched the cache since
Stored(k) == k.op = "getCacheQuery" /\ k.pc = "done" /\ Len(k.stored) = 1

\* getCacheQuery with the key of the call that has stored its rows,
\* dbConnector.js:195-238
StartGetCacheQueryAgain(c) ==
    /\ Frame(c).pc = "idle"
    /\ Stored(Frame(0))
    /\ \E useDb \in BOOLEAN :
          SetFrame(c, attemptStart([NewCall("getCacheQuery") EXCEPT
                          !.sql = Frame(0).sql, !.cacheName = Frame(0).cacheName,
                          !.key = finalCacheName(Frame(0).sql, JUndef, Frame(0).cacheName,
                                                 CacheNameError).v,
                          !.useDb = useDb]))
    /\ UNCHANGED others

NextHit ==
    \/ StartGetCacheQuery(0)
    \/ \E c \in Calls :
          \/ StartGetCacheQueryAgain(c)
          \/ Finish(c)
    \/ \E c \in Slots :
          \/ WaitTimeout(c)
          \/ GetConnection(c)
          \/ UseDatabase(c)
          \/ Query(c)
          \/ CacheReply(c)
    \/ OnReady
    \/ OnErrorOrEnd

SpecHit == InitHit /\ [][NextHit]_vars

\* the call came after the rows were stored and its lookup went through
LookedUpAfterStore(k) ==
    /\ Stored(Frame(0))
    /\ k.op = "getCacheQuery"
    /\ k.pc \notin {"idle", "get"}
    /\ k.lookupOk

\* the call was served from the cache: it returned the stored rows and
\* never asked the pool
ServedFromCache(k) ==
    /\ k.pc = "done"
    /\ k.res = ReturnOf(Frame(0).data)
    /\ k.acq = 0 /\ k.aAcq = 0 /\ k.aStmts = 0

\* C36 as claimed: after a getCacheQuery call has stored its rows under a
\* key, a later getCacheQuery call with that key (nothing invalidated, no
\* key expired, no cache command failed) is served from the cache without
\* a backing-store call, whatever the rows, zero rows included.
StoredResultServedFromCache ==
    \A c \in Calls : LookedUpAfterStore(Frame(c)) => ServedFromCache(Frame(c))

\* C36, amended: the same for every result of at least one row; after a
\* zero-row result has been stored, the later call reads [] from the cache
\* and goes to the backing store again.
StoredRowsServedFromCache ==
    \A c \in Calls :
        LET k == Frame(c)
        IN  LookedUpAfterStore(k) =>
              /\ k.cached = Frame(0).data
              /\ Len(Frame(0).data.v) > 0 => ServedFromCache(k)
              /\ Len(Frame(0).data.v) = 0 =>
                    /\ k.pc \in {"conn", "use", "query", "add", "done"}
                    /\ k.pc \notin {"conn"} => k.acq = 1
                    /\ k.pc = "done" => k.res = ReturnOf(k.data) /\ k.aStmts >= 1

\* the second call returned the two rows the first call had stored, without
\* a connection
SecondCallServedStoredRows ==
    \E c \in Calls :
        /\ LookedUpAfterStore(Frame(c))
        /\ Len(Frame(0).data.v) = 2
        /\ ServedFromCache(Frame(c))
        /\ Frame(c).cached = JArr(DbRows(2))

----------------------------------------------------------------------------
(* One getCacheQuery or QuaryCache call with a backing store that answers  *)
(* every request and timers that fire, while nothing is assumed of the      *)
(* cache store: it may be down, flap, or leave a command unanswered         *)

NextLive ==
    \/ \E c \in Calls :
          \/ StartGetCacheQuery(c)
          \/ StartQuaryCache(c)
          \/ WaitTimeout(c)
          \/ GetConnection(c)
          \/ UseDatabase(c)
          \/ Query(c)
          \/ CacheReply(c)
    \/ OnReady
    \/ OnErrorOrEnd
    \/ ServerFlips

\* the pool and the server settle every getConnection and query; the timer
\* of waitForConnection (redis.Connector.js:202-207) fires unless cleared
BackingStoreAnswers ==
    \A c \in Calls :
        /\ WF_vars(GetConnection(c))
        /\ WF_vars(UseDatabase(c))
        /\ WF_vars(Query(c))
        /\ WF_vars(WaitTimeout(c))

SpecLive == Init /\ [][NextLive]_vars /\ BackingStoreAnswers

\* C40: every getCacheQuery and QuaryCache call eventually completes
\* (returns or throws) when the backing store answers every request,
\* whatever the cache store does.
EveryCallCompletes ==
    \A c \in Calls :
        (Frame(c).op \in {"getCacheQuery", "QuaryCache"} /\ Frame(c).pc # "done")
            ~> (Frame(c).pc = "done")

----------------------------------------------------------------------------
(* Direct calls of the pure functions: the reconnect strategy of the Redis  *)
(* client and the invalidation planner, under every configuration           *)

SqlSelectLower == <<"select", "*", "from", "users">>
SqlShow == <<"SHOW", "TABLES">>
SqlInsertLower == <<"insert", "into", "users">>
SqlInsertPadded == <<" ", "INSERT", "INTO", "orders">>
SqlDeleteUsers == <<"DELETE", "FROM", "users">>
SqlReplaceOrders == <<"REPLACE", "INTO", "orders">>
SqlDeleteNoFrom == <<"DELETE", "users">>
SqlUpdateConstructor == <<"UPDATE", "constructor", "SET">>
SqlWithDelete == <<"WITH", "x", "AS", "(", ")", "DELETE", "FROM", "users">>

Statements ==
    { SqlSelectUsers, SqlSelectLower, SqlShow, SqlCreate, SqlWithDelete, <<>>,
      SqlInsertUsers, SqlInsertLower, SqlInsertPadded, SqlUpdateOrders, SqlDeleteUsers,
      SqlReplaceOrders, SqlDeleteNoFrom, SqlUpdateConstructor }

ManualPatterns ==
    { JNull, JUndef, JStr(<<>>), JStr(PatUsersList), JArr(<<PatUsersList, PatOrders>>),
      JArr(<<>>) }

RuleSets ==
    { << >>,
      [users |-> JStr(<<"users", "_">>),
       orders |-> JArr(<< <<"orders", ":">>, <<"o", "_">> >>)] }

InitPure ==
    /\ calls = [c \in Calls |-> IdleFrame]
    /\ cache = << >>
    /\ dbVersion = 0
    /\ isRedisReady = FALSE
    /\ redisUp = TRUE
    /\ isShuttingDown = FALSE
    /\ REDIS_ENABLED = TRUE
    /\ REDIS_VHOST = "app"
    /\ autoKeyEnabled = FALSE
    /\ autoInvalidationEnabled = FALSE
    /\ invalidationRules = << >>
    /\ lastEventReady = FALSE
    /\ callArgs = << >>
    /\ callResult = << >>

frozen == <<calls, cache, dbVersion, isRedisReady, lastEventReady, redisUp, isShuttingDown,
            REDIS_ENABLED, REDIS_VHOST, autoKeyEnabled>>

\* core/autoKey.js:239-242: enableAutoInvalidation(config); the call observed
\* under the previous configuration is forgotten
EnableAutoInvalidation ==
    /\ \E enabled \in BOOLEAN, tables \in RuleSets :
          /\ autoInvalidationEnabled' = enabled
          /\ invalidationRules' = tables
    /\ callArgs' = << >>
    /\ callResult' = << >>
    /\ UNCHANGED frozen

\* the Redis client asks the strategy for the delay before reconnect attempt n
CallRetryStrategy ==
    /\ \E attempt \in 1..MaxAttempt, rnd \in 0..(RandomSteps - 1) :
          /\ callArgs' = [fn |-> "retry_strategy", attempt |-> attempt, rnd |-> rnd]
          /\ callResult' = retry_strategy(attempt, rnd)
    /\ UNCHANGED <<frozen, autoInvalidationEnabled, invalidationRules>>

\* a call of determineInvalidationPatterns(sql, manualPattern)
CallDetermineInvalidationPatterns ==
    /\ \E sql \in Statements, manualPattern \in ManualPatterns :
          /\ callArgs' = [fn |-> "determineInvalidationPatterns", sql |-> sql,
                          manualPattern |-> manualPattern]
          /\ callResult' = determineInvalidationPatterns(sql, manualPattern)
    /\ UNCHANGED <<frozen, autoInvalidationEnabled, invalidationRules>>

SqlSelectLowerWhere == <<"select", "*", "from", "users", "where", "id", "=", "?">>
SqlSelectByTwo ==
    <<"SELECT", "*", "FROM", "users", "WHERE", "status", "=", "?", "AND", "company_id", "=", "?">>
SqlSelectOrdered ==
    <<"SELECT", "*", "FROM", "users", "WHERE", "ID", "=", "?", "ORDER", "BY", "name", "LIMIT", "?">>
SqlSelectMatch ==
    <<"SELECT", "*", "FROM", "users", "WHERE", "MATCH", "(", "name", ")", "AGAINST", "(", "?", ")">>
SqlSelectLimit == <<"SELECT", "*", "FROM", "users", "LIMIT", "?">>
SqlSelectValue == <<"SELECT", "?">>
SqlSelectOrdersByUser == <<"SELECT", "*", "FROM", "orders", "WHERE", "user_id", "=", "?">>

KeyStatements ==
    { SqlSelectUsers, SqlSelectById, SqlSelectLowerWhere, SqlSelectByTwo, SqlSelectOrdered,
      SqlSelectMatch, SqlSelectLimit, SqlSelectValue, SqlSelectOrdersByUser, SqlShow }

\* parameter lists; each parameter is the text of its value, 10n a BigInt
ParameterLists ==
    { JNull, JArr(<<>>), JArr(<<"1">>), JArr(<<"2">>), JArr(<<"null">>), JArr(<<"undefined">>),
      JArr(<<"10n">>), JArr(<<"1", "2">>), JArr(<<"1", "2", "3", "4">>),
      JArr(<<"2", "2", "3", "4">>) }

Strategies == {"", "simple", "detailed"}

\* a call of generateCacheKey(sql, parameters, options)
CallGenerateCacheKey ==
    /\ \E sql \in KeyStatements, parameters \in ParameterLists, strategy \in Strategies :
          /\ callArgs' = [fn |-> "generateCacheKey", sql |-> sql, parameters |-> parameters,
                          options |-> [strategy |-> strategy]]
          /\ callResult' = generateCacheKey(sql, parameters, [strategy |-> strategy])
    /\ UNCHANGED <<frozen, autoInvalidationEnabled, invalidationRules>>

NextPure ==
    \/ EnableAutoInvalidation
    \/ CallRetryStrategy
    \/ CallDetermineInvalidationPatterns
    \/ CallGenerateCacheKey

SpecPure == InitPure /\ [][NextPure]_vars

Called(fn) == callArgs # << >> /\ callArgs.fn = fn

\* a parameter list JSON.stringify can serialise
Serialisable(parameters) == parameters.t = "array" /\ ~stringifyThrows(parameters.v)

\* C21 as stated: for every statement and every two parameter lists p1 # p2
\* the keys generateCacheKey derives differ.
KeysDifferForDifferentParameters ==
    Called("generateCacheKey") /\ callArgs.parameters.t = "array" =>
        \A p2 \in ParameterLists :
            LET other == generateCacheKey(callArgs.sql, p2, callArgs.options)
            IN  /\ p2.t = "array"
                /\ p2 # callArgs.parameters
                /\ callResult.kind = "return"
                /\ other.kind = "return"
                => other.v # callResult.v

\* C21: for every statement from which a table name and a WHERE clause can
\* be extracted and every two parameter lists p1 # p2 with different JSON
\* serialisations, generateCacheKey(statement, p1) differs from
\* generateCacheKey(statement, p2), the parameter hash taken as
\* collision-free.
KeysDifferWhereHashed ==
    /\ Called("generateCacheKey")
    /\ Serialisable(callArgs.parameters)
    /\ extractTableName(callArgs.sql) # NoTable
    /\ Len(extractWhereConditions(callArgs.sql)) > 0
    => \A p2 \in ParameterLists :
          LET other == generateCacheKey(callArgs.sql, p2, callArgs.options)
          IN  Serialisable(p2) /\ stringify(p2.v) # stringify(callArgs.parameters.v) =>
                /\ callResult.kind = "return"
                /\ other.kind = "return"
                /\ other.v # callResult.v

\* the key of SELECT * FROM users WHERE id = ? with [1] was derived, and it
\* is not the key of the same statement with [2]
KeyOfOneIsNotKeyOfTwo ==
    /\ Called("generateCacheKey")
    /\ callArgs.sql = SqlSelectById
    /\ callArgs.parameters = JArr(<<"1">>)
    /\ callArgs.options.strategy = ""
    /\ callResult = KeyReturn(<<"users", ":", "id", ":", md5(<<"1">>)>>)
    /\ callResult # generateCacheKey(SqlSelectById, JArr(<<"2">>), callArgs.options)

\* the simple form: an explicit 'simple', or auto with 4 or more parameters
SimpleForm(parameters, options) ==
    \/ options.strategy = "simple"
    \/ options.strategy = "" /\ parameters.t = "array" /\ Len(parameters.v) >= 4

ReconnectDelayWithinJitter ==
    Called("retry_strategy") =>
        LET n == callArgs.attempt
            e == IF 500 * 2^(n - 1) < 30000 THEN 500 * 2^(n - 1) ELSE 30000
        IN  /\ callResult.t = "number"
            /\ e <= callResult.v
            /\ 5 * callResult.v < 6 * e

\* the strategy is asked about an attempt beyond the cap and answers with
\* the capped delay and the largest jitter drawn
CappedDelayWithJitter ==
    /\ Called("retry_strategy")
    /\ callArgs.attempt = 11
    /\ callArgs.rnd = RandomSteps - 1
    /\ callResult.t = "number"
    /\ callResult.v > 30000

\* a manual pattern is supplied: a non-empty string or a list
Supplied(manualPattern) ==
    \/ manualPattern.t = "array"
    \/ manualPattern.t = "string" /\ manualPattern.v # <<>>

\* the statement starts, after optional white space, with INSERT, UPDATE,
\* DELETE or REPLACE in any case
StartsWithWriteKeyword(sql) ==
    \E j \in 1..Len(sql) :
        /\ \A h \in 1..(j - 1) : sql[h] = " "
        /\ sql[j] \in {"INSERT", "insert", "Insert", "UPDATE", "update", "Update",
                       "DELETE", "delete", "Delete", "REPLACE", "replace", "Replace"}

\* C18: whenever a manual pattern is supplied, determineInvalidationPatterns
\* returns exactly it, a string wrapped in a one-element list and a list as
\* it is, for every statement and with auto-invalidation enabled or disabled.
ManualPatternReturnedAsIs ==
    Called("determineInvalidationPatterns") /\ Supplied(callArgs.manualPattern) =>
        callResult = IF callArgs.manualPattern.t = "array"
                     THEN callArgs.manualPattern.v
                     ELSE <<callArgs.manualPattern.v>>

\* a manual string pattern came back wrapped although auto-invalidation is
\* disabled and the statement is a write with a rule for its table
ManualPatternWinsWhenDisabled ==
    /\ Called("determineInvalidationPatterns")
    /\ ~autoInvalidationEnabled
    /\ invalidationRules # << >>
    /\ callArgs.sql = SqlInsertUsers
    /\ callArgs.manualPattern = JStr(PatUsersList)
    /\ callResult = <<PatUsersList>>

\* C19: with no manual pattern, determineInvalidationPatterns returns [] for
\* every statement that does not start with INSERT, UPDATE, DELETE or REPLACE
\* (after optional white space, in any case), with auto-invalidation enabled
\* or disabled.
NonWriteYieldsNoPatterns ==
    /\ Called("determineInvalidationPatterns")
    /\ ~Supplied(callArgs.manualPattern)
    /\ ~StartsWithWriteKeyword(callArgs.sql)
    => callResult = <<>>

\* auto-invalidation is enabled and the statement names a table after DELETE
\* FROM, but starts with WITH: no pattern
NonWriteNamingATable ==
    /\ Called("determineInvalidationPatterns")
    /\ autoInvalidationEnabled
    /\ callArgs.manualPattern = JNull
    /\ callArgs.sql = SqlWithDelete
    /\ callResult = <<>>

\* C20: with no manual pattern, determineInvalidationPatterns returns [] when
\* auto-invalidation is disabled; when it is enabled and the statement is a
\* write on extractable table T, the configured pattern(s) of T if a rule
\* exists (a single string wrapped in a list) and otherwise exactly
\* [T_*, T:*]; and [] when no table name can be extracted.
AutoPatternsFollowRules ==
    Called("determineInvalidationPatterns") /\ ~Supplied(callArgs.manualPattern) =>
        LET T == extractTableNameInv(callArgs.sql)
        IN  /\ ~autoInvalidationEnabled => callResult = <<>>
            /\ autoInvalidationEnabled /\ StartsWithWriteKeyword(callArgs.sql) =>
                  callResult =
                     IF T = NoTable THEN <<>>
                     ELSE IF T \in DOMAIN invalidationRules
                          THEN IF invalidationRules[T].t = "array"
                               THEN invalidationRules[T].v
                               ELSE <<invalidationRules[T].v>>
                          ELSE << <<T, "_", "*">>, <<T, ":", "*">> >>

\* C16: isRedisConnected() is true exactly when the latest of the client's
\* ready, error and end events was a ready event: false before the first
\* ready event, false after every error or end event.
ConnectedIffLatestEventReady == isRedisConnected = lastEventReady

\* the connection was ready (a command of the running call was answered),
\* then an error or end event came: isRedisConnected() answers false
DisconnectedAfterReady ==
    /\ ~isRedisConnected
    /\ ~lastEventReady
    /\ \E c \in DOMAIN calls : Frame(c).cacheOk

\* the pattern delPrefixKeyItem(pattern) scans with matches the key as the
\* cache holds it (redis.Connector.js:305, 248-250)
Deletes(pattern, key) == GlobMatch(namespaceKey(pattern \o <<"*">>), namespaceKey(key))

\* C39: for every statement from which generateCacheKey extracts a table
\* name T, under every strategy, the generated key begins with T: and so is
\* matched by the default pattern T:*, which is among the patterns of every
\* auto-invalidated write to T for which no rule is configured.
DerivedKeyUnderDefaultPattern ==
    /\ Called("generateCacheKey")
    /\ extractTableName(callArgs.sql) # NoTable
    /\ callResult.kind = "return"
    => LET T == extractTableName(callArgs.sql)
           key == callResult.v
       IN  /\ Len(key) > 2
           /\ SubSeq(key, 1, 2) = <<T, ":">>
           /\ Deletes(<<T, ":", "*">>, key)
           /\ \A w \in Statements :
                 /\ autoInvalidationEnabled
                 /\ isWriteOperation(w)
                 /\ extractTableNameInv(w) = T
                 /\ ~Truthy(GetProperty(invalidationRules, T))
                 => LET patterns == determineInvalidationPatterns(w, JNull)
                    IN  \E j \in 1..Len(patterns) :
                           patterns[j] = <<T, ":", "*">> /\ Deletes(patterns[j], key)

\* with auto invalidation on and no rules, the key of a read of orders under
\* the simple strategy was derived; DELETE FROM users does not delete it,
\* REPLACE INTO orders does
OrdersKeyDeletedByWriteToOrders ==
    /\ Called("generateCacheKey")
    /\ autoInvalidationEnabled
    /\ invalidationRules = << >>
    /\ callArgs.sql = SqlSelectOrdersByUser
    /\ callArgs.parameters = JArr(<<"1">>)
    /\ callArgs.options.strategy = "simple"
    /\ callResult = KeyReturn(<<"orders", ":", md5(<<"1">>)>>)
    /\ \E j \in 1..2 : Deletes(determineInvalidationPatterns(SqlReplaceOrders, JNull)[j],
                                callResult.v)
    /\ \A j \in 1..2 : ~Deletes(determineInvalidationPatterns(SqlDeleteUsers, JNull)[j],
                                 callResult.v)

============================================================================
